---- MODULE Spec2Model ----
(***************************************************************************)
(* A model of the collection and aggregation pipeline of the terminal      *)
(* dashboard: the label grouping engine (ports and node views), the        *)
(* process tree builder, the multi-process memory aggregator, the Docker   *)
(* stats worker and its lock-guarded snapshot, the container lifecycle     *)
(* commands, the main loop and the compose grouping of containers.         *)
(*                                                                         *)
(* Strings that the code scans character by character are sequences of     *)
(* one-character strings; Option<T> is a record [some, v]; vector indices   *)
(* keep the code's 0-based values.                                         *)
(***************************************************************************)
EXTENDS Integers, Sequences, FiniteSets, TLC

VARIABLES
    \* ---- label grouping engine (runtime.rs, Ports and Node views) ----
    view_mode,      \* state.view_mode of the session that is modelled
    sys_ports,      \* what collect_ports returns in this session
    sys_nodes,      \* what collect_node_processes returns in this session
    ports_cache,    \* Vec<PortInfo> of the last Ports refresh
    ports_rows,     \* Vec<PortRow> of the last Ports refresh
    node_view,      \* Vec<NodeProcessInfo>: node_main followed by node_utils
    utils_offset,   \* node_main.len() of the last Node refresh
    node_rows,      \* Vec<NodeRow> of the last Node refresh
    \* ---- process tree builder (runtime.rs, Process view) ----
    process_cache,  \* HashMap<Pid, ProcInfo>: a function on the pids present
    sort_by,        \* state.sort_by
    sort_order,     \* state.sort_order
    zoom,           \* state.zoom: tree mode (show_children)
    process_dirty,  \* rows_cache is not yet built from process_cache
    rows_cache,     \* Vec<TreeRow> of the last Process refresh
    \* ---- multi-process memory aggregator (process.rs) ----
    mem_procs,      \* HashMap<Pid, ProcInfo> handed to the aggregator
    iter_order,     \* the iteration order of that hash map
    pss_bytes,      \* pid -> Option<u64>: what read_pss_bytes_cached returns
    cgroup_of,      \* pid -> Option<path>: what get_cgroup_path returns
    cgroup_current, \* Option<u64>: what memory.current of a cgroup reads as
    agg_runs,       \* how many times the aggregator has run over mem_procs
    after_first,    \* mem_procs as the first run left it
    \* ---- Docker stats worker and its snapshot (docker/mod.rs) ----
    docker_data,    \* the Vec behind Arc<Mutex<..>>: its buffer and its length word
    lock_owner,     \* who holds the mutex: nobody, the worker or a caller
    worker_pc,      \* where the worker thread is in its loop
    worker_stats,   \* the Vec that load_docker_stats returned to the worker
    poll_result,    \* how the worker's poll of this round ended
    committed,      \* the list of the last completed publish
    caller_pc,      \* caller -> where it is in snapshot()
    caller_local,   \* caller -> the words of the Vec it has read so far
    caller_result,  \* caller -> what its last snapshot() returned
    caller_old_new, \* caller -> the lists published whole since its call began
    \* ---- Container lifecycle commands (app/input.rs) ----
    engine_running,     \* container id -> is it running in the engine
    published,          \* container id -> running flag in the worker's published list
    docker_raw,         \* container id -> running flag in the main loop's snapshot
    pending_operations, \* container id -> None or Some(expected running-state)
    context_menu,       \* None or Some([target, items])
    message,            \* the status line: its kind and the container it names
    spawn_queue,        \* container ids the running dispatch has still to spawn for
    spawn_action,       \* the action of the running dispatch
    threads,            \* every detached unit spawned so far
    operation_channel,  \* OperationComplete events sent and not yet drained
    batches,            \* history: per dispatch, the container ids it selected
    received,           \* history: the events the main loop has drained
    entry_state,        \* history: container id -> recorded, or how last removed
    life_containers,    \* the container list handed to execute_context_action
    \* ---- The main loop (app/runtime.rs) ----
    main_view,          \* state.view_mode as the loop sees it
    main_pc,            \* where the main thread is in the loop body
    dirty,              \* process_dirty, ports_dirty, node_dirty
    external_command,   \* the external command the main thread waits for, or None
    resume_at,          \* where the main thread goes on when the command returns
    hung_commands,      \* the external commands that never return
    \* ---- group_containers (docker/stats.rs) ----
    docker_view,        \* the container list handed to group_containers, then its flat list
    docker_rows,        \* the rows group_containers returned
    docker_dirty,       \* TRUE until group_containers has run
    grouped_from,       \* history: the list group_containers was handed
    \* ---- collect_node_processes (node/mod.rs, node/detect.rs) ----
    node_system,        \* pid -> what detect_node_processes reads of that Node.js process
    pm2_procs,          \* Vec<Pm2Process>: what load_pm2_processes returns, or <<>> on error
    cluster_from,       \* history: the vector group_cluster_workers was handed
    cluster_merged,     \* history: the vector group_cluster_workers returned
    collected,          \* Vec<NodeProcessInfo>: what collect_node_processes returned
    collect_done,       \* TRUE once collect_node_processes has run
    \* ---- collect_ports (ports/mod.rs, ports/proc.rs, ports/docker.rs) ----
    proc_scan,          \* Vec<PortInfo>: what collect_proc_ports returns
    docker_bindings,    \* Vec<PortInfo>: what load_docker_port_bindings returns
    ports_collected,    \* Vec<PortInfo>: what collect_ports returned
    ports_done,         \* TRUE once collect_ports has run
    \* ---- build_inode_pid_map and its cache (ports/proc.rs) ----
    clock_now,          \* Instant::now(), in seconds since the program started
    proc_fds,           \* the socket links under /proc: pairs <<pid, inode>>
    inode_cache,        \* the Option<InodeMapCache> behind the mutex
    cache_poisoned,     \* the mutex is poisoned: a thread panicked while it held the guard
    inode_result,       \* the map the last call of build_inode_pid_map returned
    rescanned,          \* the last call went through build_inode_pid_map_uncached
    inode_calls,        \* how many calls of build_inode_pid_map have returned
    \* ---- parse_pm2_json (node/pm2.rs) ----
    jlist_source,       \* the PM2 process list that pm2 jlist prints
    jlist_text,         \* the bytes of the output of pm2 jlist
    jlist_parsed,       \* None, or Some of what parse_pm2_json made of the text
    \* ---- parse_activity_time ----
    status_source,      \* the status of a container as docker ps prints it
    recency,            \* Some(the value parse_activity_time returned)
    \* ---- Views, selection and the environment view: handle_key_event, handle_mouse_event, run ----
    app_state,          \* AppState: view_mode, focus, sidebar_index, selected, visible_ports, input_mode, env_return_view, context_menu
    other_len,          \* length of visible_pids / visible_containers of the active view
    ports_dirty,        \* run: the Ports rows are to be rebuilt
    last_step,          \* history: the last loop iteration rebuilt the Ports rows, or its event
    env_opened_from     \* history: the view that was active when the environment view opened

groupVars == <<view_mode, sys_ports, sys_nodes, ports_cache, ports_rows, node_view, utils_offset, node_rows>>

treeVars == <<process_cache, sort_by, sort_order, zoom, process_dirty, rows_cache>>

memVars == <<mem_procs, iter_order, pss_bytes, cgroup_of, cgroup_current, agg_runs, after_first>>

snapVars == <<docker_data, lock_owner, worker_pc, worker_stats, poll_result, committed,
              caller_pc, caller_local, caller_result, caller_old_new>>

lifeVars == <<engine_running, published, docker_raw, pending_operations,
              context_menu, message, spawn_queue, spawn_action, threads,
              operation_channel, batches, received, entry_state, life_containers>>

mainVars == <<main_view, main_pc, dirty, external_command, resume_at, hung_commands>>

gcVars == <<docker_view, docker_rows, docker_dirty, grouped_from>>

nodeCollectVars == <<node_system, pm2_procs, cluster_from, cluster_merged, collected, collect_done>>

portsCollectVars == <<proc_scan, docker_bindings, ports_collected, ports_done>>

inodeVars == <<clock_now, proc_fds, inode_cache, cache_poisoned, inode_result, rescanned, inode_calls>>

pm2ParseVars == <<jlist_source, jlist_text, jlist_parsed>>

activityVars == <<status_source, recency>>

navVars == <<app_state, other_len, ports_dirty, last_step, env_opened_from>>

vars == <<groupVars, treeVars, memVars, snapVars, lifeVars, mainVars, gcVars, nodeCollectVars, portsCollectVars, inodeVars, pm2ParseVars, activityVars, navVars>>

\* What the actions of one component leave alone: the other components.
notGroupVars == <<treeVars, memVars, snapVars, lifeVars, mainVars, gcVars, nodeCollectVars, portsCollectVars, inodeVars, pm2ParseVars, activityVars, navVars>>
notTreeVars == <<groupVars, memVars, snapVars, lifeVars, mainVars, gcVars, nodeCollectVars, portsCollectVars, inodeVars, pm2ParseVars, activityVars, navVars>>
notMemVars == <<groupVars, treeVars, snapVars, lifeVars, mainVars, gcVars, nodeCollectVars, portsCollectVars, inodeVars, pm2ParseVars, activityVars, navVars>>
notSnapVars == <<groupVars, treeVars, memVars, lifeVars, mainVars, gcVars, nodeCollectVars, portsCollectVars, inodeVars, pm2ParseVars, activityVars, navVars>>
notLifeVars == <<groupVars, treeVars, memVars, snapVars, mainVars, gcVars, nodeCollectVars, portsCollectVars, inodeVars, pm2ParseVars, activityVars, navVars>>
notGcVars == <<groupVars, treeVars, memVars, snapVars, lifeVars, mainVars, nodeCollectVars, portsCollectVars, inodeVars, pm2ParseVars, activityVars, navVars>>
notMainVars == <<groupVars, treeVars, memVars, snapVars, lifeVars, gcVars, nodeCollectVars, portsCollectVars, inodeVars, pm2ParseVars, activityVars, navVars>>
notNodeCollectVars == <<groupVars, treeVars, memVars, snapVars, lifeVars, mainVars, gcVars, portsCollectVars, inodeVars, pm2ParseVars, activityVars, navVars>>
notPortsCollectVars == <<groupVars, treeVars, memVars, snapVars, lifeVars, mainVars, gcVars, nodeCollectVars, inodeVars, pm2ParseVars, activityVars, navVars>>
notInodeVars == <<groupVars, treeVars, memVars, snapVars, lifeVars, mainVars, gcVars, nodeCollectVars, portsCollectVars, pm2ParseVars, activityVars, navVars>>
notPm2ParseVars == <<groupVars, treeVars, memVars, snapVars, lifeVars, mainVars, gcVars, nodeCollectVars, portsCollectVars, inodeVars, activityVars, navVars>>
notActivityVars == <<groupVars, treeVars, memVars, snapVars, lifeVars, mainVars, gcVars, nodeCollectVars, portsCollectVars, inodeVars, pm2ParseVars, navVars>>
notNavVars == <<groupVars, treeVars, memVars, snapVars, lifeVars, mainVars, gcVars, nodeCollectVars, portsCollectVars, inodeVars, pm2ParseVars, activityVars>>

(***************************************************************************)
(* Option<T>                                                               *)
(***************************************************************************)
None == [some |-> FALSE, v |-> <<>>]
Some(x) == [some |-> TRUE, v |-> x]

(***************************************************************************)
(* Character-level string helpers (str::trim, to_ascii_lowercase)          *)
(***************************************************************************)
is_whitespace(ch) == ch = " "

to_ascii_lowercase_char(ch) ==
    CASE ch = "A" -> "a"
      [] ch = "B" -> "b"
      [] ch = "C" -> "c"
      [] OTHER -> ch

to_ascii_lowercase(s) == [i \in 1..Len(s) |-> to_ascii_lowercase_char(s[i])]

RECURSIVE trim_start(_)
trim_start(s) ==
    IF s = <<>> THEN <<>>
    ELSE IF is_whitespace(Head(s)) THEN trim_start(Tail(s))
    ELSE s

RECURSIVE trim_end(_)
trim_end(s) ==
    IF s = <<>> THEN <<>>
    ELSE IF is_whitespace(s[Len(s)]) THEN trim_end(SubSeq(s, 1, Len(s) - 1))
    ELSE s

trim(s) == trim_end(trim_start(s))

(***************************************************************************)
(* Label and token derivation                                              *)
(***************************************************************************)
is_token_separator(ch) == is_whitespace(ch) \/ ch \in {"|", ":", "-", "_"}

\* The byte offset of the first separator of `trimmed`, or its length.
first_separator(trimmed) ==
    LET hits == {i \in 1..Len(trimmed) : is_token_separator(trimmed[i])}
    IN  IF hits = {} THEN Len(trimmed)
        ELSE (CHOOSE i \in hits : \A j \in hits : i <= j) - 1

group_token_from_label(label) ==
    LET trimmed == trim(label)
        end == first_separator(trimmed)
        token == trim(SubSeq(trimmed, 1, end))
    IN  IF token = <<>> THEN trimmed ELSE token

\* rsplit_once(':') then the trimmed tail; the trimmed name when there is
\* no colon or nothing follows the last one.
display_group_label(name) ==
    LET trimmed == trim(name)
        colons == {i \in 1..Len(trimmed) : trimmed[i] = ":"}
        after_colon ==
            IF colons = {} THEN trimmed
            ELSE LET last == CHOOSE i \in colons : \A j \in colons : j <= i
                 IN  trim(SubSeq(trimmed, last + 1, Len(trimmed)))
    IN  IF after_colon = <<>> THEN trimmed ELSE after_colon

group_label_for_port(port) ==
    IF port.project_name.some /\ trim(port.project_name.v) # <<>>
        THEN trim(port.project_name.v)
    ELSE IF port.group_name.some /\ trim(port.group_name.v) # <<>>
        THEN trim(port.group_name.v)
    ELSE display_group_label(port.name)

group_label_for_node(proc) ==
    IF proc.project_name.some /\ trim(proc.project_name.v) # <<>>
        THEN trim(proc.project_name.v)
    ELSE trim(proc.name)

(***************************************************************************)
(* Label Grouping Engine: group_ports and group_node_processes             *)
(***************************************************************************)
\* token_counts.get(key).copied().unwrap_or(0): only non-empty keys are counted.
token_count(token_keys, key) ==
    IF key = <<>> THEN 0
    ELSE Cardinality({i \in 1..Len(token_keys) : token_keys[i] = key})

\* A mutation of push_group_item: an item that joins an existing group
\* replaces the group's items instead of being appended.
push_group_item_overwrite(groups, group_key, group_label, item) ==
    IF \E g \in 1..Len(groups) : groups[g].key = group_key
    THEN LET g == CHOOSE g \in 1..Len(groups) : groups[g].key = group_key
         IN  [groups EXCEPT ![g].items = <<item>>]
    ELSE Append(groups, [key |-> group_key, name |-> group_label, items |-> <<item>>])

\* A mutation of push_group_item: a new group goes to the front.
push_group_item_newest_first(groups, group_key, group_label, item) ==
    IF \E g \in 1..Len(groups) : groups[g].key = group_key
    THEN LET g == CHOOSE g \in 1..Len(groups) : groups[g].key = group_key
         IN  [groups EXCEPT ![g].items = Append(@, item)]
    ELSE <<[key |-> group_key, name |-> group_label, items |-> <<item>>]>> \o groups

\* group_map lookup, creation of the group on a miss, then items.push(item).
push_group_item(groups, group_key, group_label, item) ==
    IF \E g \in 1..Len(groups) : groups[g].key = group_key
    THEN LET g == CHOOSE g \in 1..Len(groups) : groups[g].key = group_key
         IN  [groups EXCEPT ![g].items = Append(@, item)]
    ELSE Append(groups, [key |-> group_key, name |-> group_label, items |-> <<item>>])

\* A mutation of group_key_and_label: the token is used whenever it is
\* not empty, however many items have it.
group_key_and_label_always_token(labels, tokens, token_keys, i) ==
    IF token_keys[i] # <<>>
    THEN [key |-> <<"token", token_keys[i]>>, label |-> tokens[i]]
    ELSE [key |-> <<"label", to_ascii_lowercase(labels[i])>>, label |-> labels[i]]

\* The (group_key, group_label) pair of the item at position i.
group_key_and_label(labels, tokens, token_keys, i) ==
    LET use_token == token_count(token_keys, token_keys[i]) > 1
    IN  IF use_token /\ token_keys[i] # <<>>
        THEN [key |-> <<"token", token_keys[i]>>, label |-> tokens[i]]
        ELSE [key |-> <<"label", to_ascii_lowercase(labels[i])>>, label |-> labels[i]]

RECURSIVE item_rows(_)
item_rows(items) ==
    IF items = <<>> THEN <<>>
    ELSE <<[kind |-> "Item", index |-> Head(items)]>> \o item_rows(Tail(items))

\* One Group row per group followed by its Item rows.
RECURSIVE rows_from_groups(_)
rows_from_groups(groups) ==
    IF groups = <<>> THEN <<>>
    ELSE <<[kind |-> "Group", name |-> Head(groups).name, count |-> Len(Head(groups).items)]>>
         \o item_rows(Head(groups).items)
         \o rows_from_groups(Tail(groups))

RECURSIVE port_groups(_, _, _, _, _)
port_groups(labels, tokens, token_keys, i, groups) ==
    IF i > Len(labels) THEN groups
    ELSE LET kl == group_key_and_label(labels, tokens, token_keys, i)
         IN  port_groups(labels, tokens, token_keys, i + 1,
                         push_group_item(groups, kl.key, kl.label, i - 1))

group_ports(ports) ==
    IF ports = <<>> THEN <<>>
    ELSE LET labels == [i \in 1..Len(ports) |-> group_label_for_port(ports[i])]
             tokens == [i \in 1..Len(ports) |-> group_token_from_label(labels[i])]
             token_keys == [i \in 1..Len(ports) |-> to_ascii_lowercase(tokens[i])]
         IN  rows_from_groups(port_groups(labels, tokens, token_keys, 1, <<>>))

\* The second loop of build_grouped_rows: indices[i] + offset is pushed.
RECURSIVE node_groups(_, _, _, _, _, _, _)
node_groups(labels, tokens, token_keys, indices, offset, i, groups) ==
    IF i > Len(indices) THEN groups
    ELSE LET kl == group_key_and_label(labels, tokens, token_keys, i)
         IN  node_groups(labels, tokens, token_keys, indices, offset, i + 1,
                         push_group_item(groups, kl.key, kl.label, indices[i] + offset))

\* `indices` holds 0-based positions into `processes`.
build_grouped_rows(processes, indices, offset) ==
    IF indices = <<>> THEN <<>>
    ELSE LET labels == [i \in 1..Len(indices) |-> group_label_for_node(processes[indices[i] + 1])]
             tokens == [i \in 1..Len(indices) |-> group_token_from_label(labels[i])]
             token_keys == [i \in 1..Len(indices) |-> to_ascii_lowercase(tokens[i])]
         IN  rows_from_groups(node_groups(labels, tokens, token_keys, indices, offset, 1, <<>>))

group_node_processes(processes, offset) ==
    IF processes = <<>> THEN <<>>
    ELSE build_grouped_rows(processes, [i \in 1..Len(processes) |-> i - 1], offset)

(***************************************************************************)
(* is_node_util and its token scanner                                      *)
(***************************************************************************)
is_ascii_alphanumeric(ch) ==
    ch \in {"a", "b", "c", "i", "l", "m", "n", "v", "x", "A", "B", "C"}

\* The scanner of contains_token: `current` is the word being read.
RECURSIVE contains_token_from(_, _, _)
contains_token_from(text, token, current) ==
    IF text = <<>> THEN current # <<>> /\ current = token
    ELSE IF is_ascii_alphanumeric(Head(text))
        THEN contains_token_from(Tail(text), token,
                                 Append(current, to_ascii_lowercase_char(Head(text))))
    ELSE IF current # <<>>
        THEN current = token \/ contains_token_from(Tail(text), token, <<>>)
    ELSE contains_token_from(Tail(text), token, current)

contains_token(text, token) == contains_token_from(text, token, <<>>)

contains_cli(text) == contains_token(text, <<"c", "l", "i">>)

is_node_util(proc) ==
    \/ proc.uses_nvm
    \/ contains_token(proc.name, <<"n", "v", "m">>)
    \/ contains_token(proc.script, <<"n", "v", "m">>)
    \/ (proc.project_name.some /\ contains_token(proc.project_name.v, <<"n", "v", "m">>))
    \/ contains_cli(proc.name)
    \/ contains_cli(proc.script)
    \/ (proc.project_name.some /\ contains_cli(proc.project_name.v))

(***************************************************************************)
(* Inputs of the grouping views                                            *)
(***************************************************************************)
MaxItems == 3

\* PortInfo values as collect_ports can return them (the fields the
\* grouping reads): labels sharing a leading word in different case, a
\* blank project name, a name with a colon, a label starting with a
\* separator and an empty name.
PortInputs ==
    { [project_name |-> Some(<<"a", "b">>), group_name |-> None, name |-> <<"x">>],
      [project_name |-> Some(<<"a", "b", "-", "x">>), group_name |-> None, name |-> <<"x">>],
      [project_name |-> Some(<<"A", "B", " ", "c">>), group_name |-> Some(<<"c">>), name |-> <<"x">>],
      [project_name |-> None, group_name |-> Some(<<"c">>), name |-> <<"x">>],
      [project_name |-> Some(<<" ">>), group_name |-> None, name |-> <<"x", ":", "C">>],
      [project_name |-> None, group_name |-> None, name |-> <<"-", "x">>],
      [project_name |-> None, group_name |-> None, name |-> <<>>] }

NodeInputs ==
    { [name |-> <<"a", "b">>, script |-> <<"x">>, project_name |-> None, uses_nvm |-> FALSE],
      [name |-> <<"x">>, script |-> <<"x">>, project_name |-> Some(<<"A", "B", "_", "x">>), uses_nvm |-> FALSE],
      [name |-> <<"a", "b", " ", "c">>, script |-> <<"x">>, project_name |-> Some(<<" ">>), uses_nvm |-> FALSE],
      [name |-> <<"c">>, script |-> <<"x">>, project_name |-> None, uses_nvm |-> TRUE],
      [name |-> <<"c", "-", "c", "l", "i">>, script |-> <<"x">>, project_name |-> None, uses_nvm |-> FALSE],
      [name |-> <<"x">>, script |-> <<"n", "v", "m", ":", "x">>, project_name |-> Some(<<"c">>), uses_nvm |-> FALSE] }

SeqsUpTo(S, n) == UNION {[1..k -> S] : k \in 0..n}

RECURSIVE select_seq(_, _)
select_seq(s, keep) ==
    IF s = <<>> THEN <<>>
    ELSE (IF keep[1] THEN <<Head(s)>> ELSE <<>>)
         \o select_seq(Tail(s), [i \in 1..(Len(s) - 1) |-> keep[i + 1]])

UtilsRows ==
    << [kind |-> "UtilsSpacer"], [kind |-> "UtilsTitle"], [kind |-> "UtilsTop"],
       [kind |-> "UtilsHeader"], [kind |-> "UtilsSeparator"] >>

\* The node_rows that run() builds from node_view and utils_offset.
node_rows_for(view, offset) ==
    IF view = <<>> THEN <<>>
    ELSE IF offset = 0 THEN UtilsRows \o group_node_processes(view, 0)
    ELSE group_node_processes(SubSeq(view, 1, offset), 0)
         \o (IF offset < Len(view)
             THEN UtilsRows \o group_node_processes(SubSeq(view, offset + 1, Len(view)), offset)
             ELSE <<>>)

(***************************************************************************)
(* The Ports and Node branches of the main loop                            *)
(***************************************************************************)
GroupInit ==
    /\ view_mode \in {"Ports", "Node"}
    /\ sys_ports \in (IF view_mode = "Ports" THEN SeqsUpTo(PortInputs, MaxItems) ELSE {<<>>})
    /\ sys_nodes \in (IF view_mode = "Node" THEN SeqsUpTo(NodeInputs, MaxItems) ELSE {<<>>})
    /\ ports_cache = <<>>
    /\ ports_rows = <<>>
    /\ node_view = <<>>
    /\ utils_offset = 0
    /\ node_rows = <<>>

\* ViewMode::Ports with ports_dirty: collect, then group.
PortsRefresh ==
    /\ view_mode = "Ports"
    /\ ports_cache' = sys_ports
    /\ ports_rows' = group_ports(sys_ports)
    /\ UNCHANGED <<view_mode, sys_ports, sys_nodes, node_view, utils_offset, node_rows>>
    /\ UNCHANGED notGroupVars

\* ViewMode::Node with node_dirty: collect, split into main and utils,
\* then group each part.
NodeRefresh ==
    /\ view_mode = "Node"
    /\ LET node_cache == sys_nodes
              is_util == [i \in 1..Len(node_cache) |-> is_node_util(node_cache[i])]
              node_main == select_seq(node_cache, [i \in 1..Len(node_cache) |-> ~is_util[i]])
              node_utils == select_seq(node_cache, is_util)
      IN  /\ utils_offset' = Len(node_main)
          /\ node_view' = node_main \o node_utils
          /\ node_rows' = node_rows_for(node_main \o node_utils, Len(node_main))
    /\ UNCHANGED <<view_mode, sys_ports, sys_nodes, ports_cache, ports_rows>>
    /\ UNCHANGED notGroupVars

GroupIdle ==
    /\ view_mode = "Process"
    /\ sys_ports = <<>>
    /\ sys_nodes = <<>>
    /\ ports_cache = <<>>
    /\ ports_rows = <<>>
    /\ node_view = <<>>
    /\ utils_offset = 0
    /\ node_rows = <<>>

(***************************************************************************)
(* Process tree builder: build_tree_rows                                   *)
(***************************************************************************)
MaxPid == 3

Pids == 1..MaxPid

\* name_lower.cmp: the lexicographic order of the names that occur.
NameOrder == <<"bash", "gnome-shell">>

name_rank(name) == CHOOSE i \in 1..Len(NameOrder) : NameOrder[i] = name

\* The (name, cpu, memory_bytes) triples that occur: the two order by name
\* one way, by cpu the other way and tie on memory.
ProcKinds ==
    { [name |-> "bash", cpu |-> 2, memory_bytes |-> 10],
      [name |-> "gnome-shell", cpu |-> 1, memory_bytes |-> 10] }

ProcInfos ==
    { [name |-> k.name, name_lower |-> k.name, cpu |-> k.cpu,
       memory_bytes |-> k.memory_bytes, parent |-> par] :
        k \in ProcKinds, par \in {None} \cup {Some(q) : q \in Pids} }

\* The parent links that count for the tree lead to no cycle: the parent id
\* of a process is that of an older, live process (a process may name itself).
RECURSIVE reaches_end(_, _, _)
reaches_end(processes, pid, fuel) ==
    LET info == processes[pid]
    IN  \/ ~info.parent.some
        \/ info.parent.v = pid
        \/ info.parent.v \notin DOMAIN processes
        \/ fuel > 0 /\ reaches_end(processes, info.parent.v, fuel - 1)

Acyclic(processes) ==
    \A pid \in DOMAIN processes : reaches_end(processes, pid, Cardinality(DOMAIN processes))

ProcessMaps ==
    {m \in UNION {[present -> ProcInfos] : present \in SUBSET Pids} : Acyclic(m)}

is_skipped_parent(pid, processes) ==
    \/ pid = 1
    \/ (pid \in DOMAIN processes /\ processes[pid].name = "gnome-shell")

\* The is_child flag of the first loop of build_tree_rows: the same value in
\* both of its branches, with show_children and without.
is_child(pid, processes, show_children) ==
    LET info == processes[pid]
        has_parent == info.parent.some /\ info.parent.v # pid
                          /\ info.parent.v \in DOMAIN processes
        skipped_parent == has_parent /\ is_skipped_parent(info.parent.v, processes)
    IN  IF ~info.parent.some THEN FALSE
        ELSE IF show_children /\ has_parent /\ ~skipped_parent THEN TRUE
        ELSE IF has_parent /\ ~skipped_parent THEN TRUE
        ELSE FALSE

\* A mutation of tree_roots: a process with a parent in the snapshot is not
\* a root even when that parent is a skipped ancestor.
tree_roots_skip_ignored(processes, show_children) ==
    {pid \in DOMAIN processes :
        ~(processes[pid].parent.some /\ processes[pid].parent.v # pid
            /\ processes[pid].parent.v \in DOMAIN processes)}

tree_roots(processes, show_children) ==
    {pid \in DOMAIN processes : ~is_child(pid, processes, show_children)}

\* children.entry(parent).or_default().push(pid): filled with show_children only.
tree_children(processes, show_children, parent) ==
    IF show_children
    THEN {pid \in DOMAIN processes :
            is_child(pid, processes, show_children) /\ processes[pid].parent.v = parent}
    ELSE {}

Permutations_of(S) ==
    {order \in [1..Cardinality(S) -> S] : \A i, j \in 1..Cardinality(S) : i # j => order[i] # order[j]}

\* The vector that a loop over the record map fills with the ids of `pids`:
\* they are pushed in the order in which the hash map yields them.
pushed_in_order(pids, iteration) ==
    select_seq(iteration, [i \in 1..Len(iteration) |-> iteration[i] \in pids])

\* Ordering as -1, 0, 1.
cmp_int(a, b) == IF a < b THEN -1 ELSE IF a > b THEN 1 ELSE 0

compare_proc(a, b, by) ==
    CASE by = "Cpu" -> cmp_int(a.cpu, b.cpu)
      [] by = "Memory" -> cmp_int(a.memory_bytes, b.memory_bytes)
      [] by = "Name" -> cmp_int(name_rank(a.name_lower), name_rank(b.name_lower))

\* A mutation of pid_before: the comparator without its tiebreaker.
pid_before_no_tiebreak(a_pid, b_pid, processes, by) ==
    compare_proc(processes[a_pid], processes[b_pid], by) < 0

\* The comparator of sort_pid_list: compare_proc, then the pid.
pid_before(a_pid, b_pid, processes, by) ==
    LET ordering == compare_proc(processes[a_pid], processes[b_pid], by)
    IN  IF ordering = 0 THEN a_pid < b_pid ELSE ordering < 0

\* One step of a stable sort: `pid` goes behind every element that it is
\* not before.
RECURSIVE insert_sorted(_, _, _, _)
insert_sorted(sorted, pid, processes, by) ==
    IF sorted = <<>> THEN <<pid>>
    ELSE IF pid_before(pid, sorted[Len(sorted)], processes, by)
    THEN Append(insert_sorted(SubSeq(sorted, 1, Len(sorted) - 1), pid, processes, by),
                sorted[Len(sorted)])
    ELSE Append(sorted, pid)

\* slice::sort_by, a stable sort, on the vector as it was filled.
RECURSIVE sorted_ascending(_, _, _)
sorted_ascending(pids, processes, by) ==
    IF pids = <<>> THEN <<>>
    ELSE insert_sorted(sorted_ascending(SubSeq(pids, 1, Len(pids) - 1), processes, by),
                       pids[Len(pids)], processes, by)

reverse(s) == [i \in 1..Len(s) |-> s[Len(s) + 1 - i]]

\* sort_pid_list on a vector of pids: sort_by, then reverse for Desc.
sort_pid_list(pids, processes, by, order) ==
    IF order = "Desc" THEN reverse(sorted_ascending(pids, processes, by))
    ELSE sorted_ascending(pids, processes, by)

\* The prefix as the sequence of its three-character segments.
build_tree_prefix(ancestor_last, is_last) ==
    IF ancestor_last = <<>> THEN <<>>
    ELSE [i \in 1..Len(ancestor_last) |-> IF ancestor_last[i] THEN "   " ELSE "|  "]
         \o <<IF is_last THEN "+- " ELSE "|- ">>

\* `iteration` is the order in which the record map yields its entries; the
\* vectors of roots and of children are filled in it.
RECURSIVE push_tree_rows(_, _, _, _, _, _, _, _)
RECURSIVE push_child_rows(_, _, _, _, _, _, _, _)
push_tree_rows(pid, is_last, ancestor_last, processes, by, order, show_children, iteration) ==
    <<[pid |-> pid, prefix |-> build_tree_prefix(ancestor_last, is_last)]>>
    \o push_child_rows(
          sort_pid_list(pushed_in_order(tree_children(processes, show_children, pid), iteration),
                        processes, by, order),
          1, Append(ancestor_last, is_last), processes, by, order, show_children, iteration)

\* The loop over child_list (and, from build_tree_rows, over roots).
push_child_rows(list, idx, ancestor_last, processes, by, order, show_children, iteration) ==
    IF idx > Len(list) THEN <<>>
    ELSE push_tree_rows(list[idx], idx = Len(list), ancestor_last,
                        processes, by, order, show_children, iteration)
         \o push_child_rows(list, idx + 1, ancestor_last, processes, by, order, show_children,
                            iteration)

build_tree_rows(processes, by, order, show_children, iteration) ==
    LET roots == sort_pid_list(pushed_in_order(tree_roots(processes, show_children), iteration),
                               processes, by, order)
    IN  IF show_children
        THEN push_child_rows(roots, 1, <<>>, processes, by, order, show_children, iteration)
        ELSE [i \in 1..Len(roots) |-> [pid |-> roots[i], prefix |-> <<>>]]

TreeInit ==
    /\ process_cache \in ProcessMaps
    /\ sort_by \in {"Cpu", "Memory", "Name"}
    /\ sort_order \in {"Asc", "Desc"}
    /\ zoom \in BOOLEAN
    /\ process_dirty = TRUE
    /\ rows_cache = <<>>

TreeIdle ==
    /\ process_cache = <<>>
    /\ sort_by = "Memory"
    /\ sort_order = "Desc"
    /\ zoom = FALSE
    /\ process_dirty = TRUE
    /\ rows_cache = <<>>

\* ViewMode::Process with process_dirty: the rows are rebuilt.
ProcessRefresh ==
    /\ process_dirty
    /\ \E iteration \in Permutations_of(DOMAIN process_cache) :
          rows_cache' = build_tree_rows(process_cache, sort_by, sort_order, zoom, iteration)
    /\ process_dirty' = FALSE
    /\ UNCHANGED <<process_cache, sort_by, sort_order, zoom>>
    /\ UNCHANGED notTreeVars

(***************************************************************************)
(* Multi-process memory aggregator                                         *)
(***************************************************************************)
MaxMemPid == 2

MaxRuns == 2

MemPids == 1..MaxMemPid

\* get_app_family on the names that occur: "chrome" contains "chrome",
\* "firefox" contains "firefox", "bash" contains none of the table's words.
get_app_family(name_lower) ==
    CASE name_lower = "chrome" -> Some("chrome")
      [] name_lower = "firefox" -> Some("firefox")
      [] OTHER -> None

Families == <<"chrome", "firefox">>

\* The cgroup-v2 paths that occur, with what the is_app_specific test reads
\* in them: the family words they contain, "app-", ".scope" and "session".
CgroupPaths ==
    { [path |-> "/user.slice/app-chrome.scope", words |-> {"chrome"},
       app_dash |-> TRUE, scope |-> TRUE, session |-> FALSE],
      [path |-> "/user.slice/session-2.scope", words |-> {},
       app_dash |-> FALSE, scope |-> TRUE, session |-> TRUE] }

\* ProcInfo::memory_bytes as collect_processes sets it (process.memory()),
\* the PSS of a process when smaps_rollup is readable, and memory.current.
rss_of(pid) == 10 * pid
pss_of(pid) == pid
cgroup_memory_value == 100

\* A mutation of family_pids: threads are grouped with their family.
family_pids_with_threads(processes, order, family) ==
    select_seq(order, [i \in 1..Len(order) |->
        get_app_family(processes[order[i]].name_lower) = Some(family)])

\* The members of `family` in the order the hash map yields them.
family_pids(processes, order, family) ==
    select_seq(order, [i \in 1..Len(order) |->
        /\ ~processes[order[i]].is_thread
        /\ get_app_family(processes[order[i]].name_lower) = Some(family)])

seq_range(s) == {s[i] : i \in 1..Len(s)}

set_min(S) == CHOOSE x \in S : \A y \in S : x <= y

\* A mutation of find_family_root: the member the hash map yields first.
find_family_root_first_listed(pids, processes, family) ==
    IF pids # <<>> THEN pids[1] ELSE 0

find_family_root(pids, processes, family) ==
    LET parent_in_family(pid) ==
            /\ processes[pid].parent.some
            /\ processes[pid].parent.v \in DOMAIN processes
            /\ get_app_family(processes[processes[pid].parent.v].name_lower) = Some(family)
        candidates == {pid \in seq_range(pids) : ~parent_in_family(pid)}
    IN  IF candidates # {} THEN set_min(candidates)
        ELSE IF pids # <<>> THEN set_min(seq_range(pids))
        ELSE 0

read_cgroup_memory_if_unified(pids, family, cgroups, current) ==
    IF pids = <<>> THEN None
    ELSE IF ~cgroups[pids[1]].some THEN None
    ELSE LET first_cgroup == cgroups[pids[1]].v
             is_app_specific ==
                 \/ family \in first_cgroup.words
                 \/ first_cgroup.app_dash
                 \/ (first_cgroup.scope /\ ~first_cgroup.session)
         IN  IF \E i \in 2..Len(pids) :
                    cgroups[pids[i]].some /\ cgroups[pids[i]].v # first_cgroup
             THEN None
             ELSE IF ~is_app_specific THEN None
             ELSE current

\* mem_cache holds what an earlier call of the same run computed for the
\* pid, which is the value computed here: the map is not written between
\* the calls for one family.
memory_for_pid(pid, processes, pss) ==
    IF pid \in DOMAIN processes /\ processes[pid].is_thread THEN 0
    ELSE LET fallback == IF pid \in DOMAIN processes
                         THEN processes[pid].memory_bytes ELSE 0
         IN  IF pss[pid].some THEN pss[pid].v ELSE fallback

\* total.saturating_add(mem) over pids; the values of the model stay far
\* below u64::MAX.
RECURSIVE sum_memory(_, _, _)
sum_memory(pids, processes, pss) ==
    IF pids = <<>> THEN 0
    ELSE memory_for_pid(Head(pids), processes, pss) + sum_memory(Tail(pids), processes, pss)

family_total(pids, family, processes, pss, cgroups, current) ==
    LET cgroup_mem == read_cgroup_memory_if_unified(pids, family, cgroups, current)
    IN  IF cgroup_mem.some THEN cgroup_mem.v ELSE sum_memory(pids, processes, pss)

\* The loop over app_families of apply_multiprocess_memory_aggregation.
RECURSIVE aggregate_families(_, _, _, _, _, _)
aggregate_families(families, processes, order, pss, cgroups, current) ==
    IF families = <<>> THEN processes
    ELSE LET family == Head(families)
             pids == family_pids(processes, order, family)
             root_pid == find_family_root(pids, processes, family)
             total == family_total(pids, family, processes, pss, cgroups, current)
             updated == IF pids = <<>> \/ root_pid \notin DOMAIN processes THEN processes
                        ELSE [processes EXCEPT ![root_pid].memory_bytes = total]
         IN  aggregate_families(Tail(families), updated, order, pss, cgroups, current)

apply_multiprocess_memory_aggregation(processes, order, pss, cgroups, current) ==
    aggregate_families(Families, processes, order, pss, cgroups, current)

\* The process kinds that occur: members of two families, a thread that
\* carries a family's name, and an unclassified process.
MemKinds ==
    { [name_lower |-> "chrome", is_thread |-> FALSE],
      [name_lower |-> "chrome", is_thread |-> TRUE],
      [name_lower |-> "bash", is_thread |-> FALSE] }

MemProcInfos(pid, kinds, parents) ==
    { [name_lower |-> k.name_lower, is_thread |-> k.is_thread, parent |-> par,
       memory_bytes |-> rss_of(pid)] : k \in kinds, par \in parents }

MemMaps(kinds, parents) ==
    {m \in [MemPids -> UNION {MemProcInfos(pid, kinds, parents) : pid \in MemPids}] :
        \A pid \in MemPids : m[pid].memory_bytes = rss_of(pid)}

\* PSS readable for every process, for all but one, or for none (a build
\* without smaps_rollup).
PssReadings ==
    { [pid \in MemPids |-> IF pid \in missing THEN None ELSE Some(pss_of(pid))] :
        missing \in {{}} \cup {{pid} : pid \in MemPids} \cup {MemPids} }

ascending_order == [i \in 1..MaxMemPid |-> i]

\* Snapshots that vary the parent links, the threads and the PSS readings
\* (no cgroup readable), and snapshots of parentless processes that vary the
\* family, the cgroup paths and the iteration order, with PSS readable for
\* every process or for none.
MemInit ==
    /\ \/ /\ mem_procs \in MemMaps(MemKinds, {None} \cup {Some(q) : q \in MemPids})
          /\ iter_order = ascending_order
          /\ cgroup_of = [pid \in MemPids |-> None]
          /\ cgroup_current = None
          /\ pss_bytes \in PssReadings
       \/ /\ mem_procs \in MemMaps({ [name_lower |-> "chrome", is_thread |-> FALSE],
                                      [name_lower |-> "firefox", is_thread |-> FALSE] }, {None})
          /\ iter_order \in Permutations_of(MemPids)
          /\ cgroup_of \in [MemPids -> {None} \cup {Some(c) : c \in CgroupPaths}]
          /\ cgroup_current = Some(cgroup_memory_value)
          /\ \E pid \in MemPids : cgroup_of[pid].some
          /\ pss_bytes \in {r \in PssReadings : \A p, q \in MemPids : r[p].some = r[q].some}
    /\ agg_runs = 0
    /\ after_first = <<>>

MemIdle ==
    /\ mem_procs = <<>>
    /\ iter_order = <<>>
    /\ pss_bytes = <<>>
    /\ cgroup_of = <<>>
    /\ cgroup_current = None
    /\ agg_runs = 0
    /\ after_first = <<>>

\* One run of the aggregator over the map, as collect_processes makes it;
\* further runs re-enter it over the map it produced.
Aggregate ==
    /\ agg_runs < MaxRuns
    /\ mem_procs' = apply_multiprocess_memory_aggregation(
                        mem_procs, iter_order, pss_bytes, cgroup_of, cgroup_current)
    /\ agg_runs' = agg_runs + 1
    /\ after_first' = IF agg_runs = 0 THEN mem_procs' ELSE after_first
    /\ UNCHANGED <<iter_order, pss_bytes, cgroup_of, cgroup_current>>
    /\ UNCHANGED notMemVars

(***************************************************************************)
(* Docker stats worker and DockerStatsWorker::snapshot                     *)
(***************************************************************************)
MaxCallers == 2

Callers == 1..MaxCallers

\* What one poll of the engine can list: lists of different lengths.
ContainerLists ==
    { <<>>,
      <<[id |-> "c1", running |-> TRUE]>>,
      <<[id |-> "c1", running |-> FALSE], [id |-> "c2", running |-> TRUE]>> }

\* Who can hold the MutexGuard.
unlocked == <<>>
worker_thread == <<"worker">>
caller_thread(c) == <<"caller", c>>

\* A Vec as the words a thread reads and writes one at a time.
vec_of(list) == [buf |-> list, len |-> Len(list)]

\* A mutation of lock_available: the lock excludes nobody.
lock_never_held(owner) == TRUE

\* Mutex::lock returns once no other thread holds the guard.
lock_available(owner) == owner = unlocked

\* What the engine CLI does in one poll: `docker ps -a` cannot be spawned
\* (no CLI on the PATH), exits non-zero, or lists containers; then, when the
\* list is not empty, the same three for `docker stats --no-stream`.
CommandOutcomes == {"spawn_error", "nonzero_exit", "success"}

EngineReplies ==
    {[ps |-> ps, listed |-> listed, stats |-> stats] :
        ps \in CommandOutcomes, listed \in ContainerLists, stats \in CommandOutcomes}

\* A mutation of load_docker_stats: a failed command reads as an empty list.
load_docker_stats_or_empty(reply) ==
    IF reply.ps = "success" /\ reply.stats = "success" THEN Some(reply.listed)
    ELSE Some(<<>>)

\* load_docker_stats: None when a command could not be run or exited
\* non-zero, the parsed list otherwise.
load_docker_stats(reply) ==
    IF reply.ps # "success" THEN None
    ELSE IF reply.listed = <<>> THEN Some(<<>>)
    ELSE IF reply.stats # "success" THEN None
    ELSE Some(reply.listed)

\* Which of the returns of load_docker_stats the poll took.
poll_outcome(reply) ==
    IF reply.ps = "spawn_error" THEN "no_cli"
    ELSE IF reply.ps = "nonzero_exit" THEN "listing_failed"
    ELSE IF reply.listed = <<>> THEN "loaded"
    ELSE IF reply.stats # "success" THEN "stats_failed"
    ELSE "loaded"

SnapInit ==
    /\ docker_data = vec_of(<<>>)
    /\ lock_owner = unlocked
    /\ worker_pc = "poll"
    /\ worker_stats = None
    /\ poll_result = "pending"
    /\ committed = <<>>
    /\ caller_pc = [c \in Callers |-> "idle"]
    /\ caller_local = [c \in Callers |-> vec_of(<<>>)]
    /\ caller_result = [c \in Callers |-> vec_of(<<>>)]
    /\ caller_old_new = [c \in Callers |-> {}]

SnapIdle ==
    /\ docker_data = vec_of(<<>>)
    /\ lock_owner = unlocked
    /\ worker_pc = "off"
    /\ worker_stats = None
    /\ poll_result = "pending"
    /\ committed = <<>>
    /\ caller_pc = <<>>
    /\ caller_local = <<>>
    /\ caller_result = <<>>
    /\ caller_old_new = <<>>

snapCallerVars == <<caller_pc, caller_local, caller_result, caller_old_new>>

\* load_docker_stats() returned Some(stats): the worker goes for the lock.
WorkerPollOk ==
    /\ worker_pc = "poll"
    /\ \E reply \in EngineReplies :
          /\ load_docker_stats(reply).some
          /\ worker_stats' = load_docker_stats(reply)
          /\ poll_result' = poll_outcome(reply)
    /\ worker_pc' = "lock"
    /\ UNCHANGED <<docker_data, lock_owner, committed, snapCallerVars>>
    /\ UNCHANGED notSnapVars

\* load_docker_stats() returned None: the if-let body is skipped and the
\* worker goes to sleep.
WorkerPollFailed ==
    /\ worker_pc = "poll"
    /\ \E reply \in EngineReplies :
          /\ ~load_docker_stats(reply).some
          /\ worker_stats' = load_docker_stats(reply)
          /\ poll_result' = poll_outcome(reply)
    /\ worker_pc' = "sleep"
    /\ UNCHANGED <<docker_data, lock_owner, committed, snapCallerVars>>
    /\ UNCHANGED notSnapVars

\* thread_data.lock()
WorkerLock ==
    /\ worker_pc = "lock"
    /\ lock_available(lock_owner)
    /\ lock_owner' = worker_thread
    /\ worker_pc' = "write_buf"
    /\ UNCHANGED <<docker_data, worker_stats, committed, snapCallerVars>>
    /\ UNCHANGED poll_result
    /\ UNCHANGED notSnapVars

\* *guard = stats, first word: the buffer.
WorkerWriteBuf ==
    /\ worker_pc = "write_buf"
    /\ docker_data' = [docker_data EXCEPT !.buf = worker_stats.v]
    /\ worker_pc' = "write_len"
    /\ UNCHANGED <<lock_owner, worker_stats, committed, snapCallerVars>>
    /\ UNCHANGED poll_result
    /\ UNCHANGED notSnapVars

\* *guard = stats, second word: the length. The publish is complete.
WorkerWriteLen ==
    /\ worker_pc = "write_len"
    /\ docker_data' = [docker_data EXCEPT !.len = Len(worker_stats.v)]
    /\ committed' = worker_stats.v
    /\ caller_old_new' = [c \in Callers |->
           IF caller_pc[c] = "idle" THEN caller_old_new[c]
           ELSE caller_old_new[c] \cup {worker_stats.v}]
    /\ worker_pc' = "unlock"
    /\ UNCHANGED <<lock_owner, worker_stats, caller_pc, caller_local, caller_result>>
    /\ UNCHANGED poll_result
    /\ UNCHANGED notSnapVars

\* The guard is dropped at the end of the if-let block.
WorkerUnlock ==
    /\ worker_pc = "unlock"
    /\ lock_owner' = IF lock_owner = worker_thread THEN unlocked ELSE lock_owner
    /\ worker_stats' = None
    /\ worker_pc' = "sleep"
    /\ UNCHANGED <<docker_data, committed, snapCallerVars>>
    /\ UNCHANGED poll_result
    /\ UNCHANGED notSnapVars

\* thread::sleep(interval) returns.
WorkerWake ==
    /\ worker_pc = "sleep"
    /\ worker_pc' = "poll"
    /\ UNCHANGED <<docker_data, lock_owner, worker_stats, committed, snapCallerVars>>
    /\ poll_result' = "pending"
    /\ UNCHANGED notSnapVars

\* A thread calls snapshot().
SnapshotCall(c) ==
    /\ caller_pc[c] = "idle"
    /\ caller_pc' = [caller_pc EXCEPT ![c] = "lock"]
    /\ caller_old_new' = [caller_old_new EXCEPT ![c] = {committed}]
    /\ UNCHANGED <<docker_data, lock_owner, worker_pc, worker_stats, committed,
                   caller_local, caller_result>>
    /\ UNCHANGED poll_result
    /\ UNCHANGED notSnapVars

\* self.data.lock()
SnapshotLock(c) ==
    /\ caller_pc[c] = "lock"
    /\ lock_available(lock_owner)
    /\ lock_owner' = caller_thread(c)
    /\ caller_pc' = [caller_pc EXCEPT ![c] = "read_buf"]
    /\ UNCHANGED <<docker_data, worker_pc, worker_stats, committed,
                   caller_local, caller_result, caller_old_new>>
    /\ UNCHANGED poll_result
    /\ UNCHANGED notSnapVars

\* guard.clone(), first word.
SnapshotReadBuf(c) ==
    /\ caller_pc[c] = "read_buf"
    /\ caller_local' = [caller_local EXCEPT ![c].buf = docker_data.buf]
    /\ caller_pc' = [caller_pc EXCEPT ![c] = "read_len"]
    /\ UNCHANGED <<docker_data, lock_owner, worker_pc, worker_stats, committed,
                   caller_result, caller_old_new>>
    /\ UNCHANGED poll_result
    /\ UNCHANGED notSnapVars

\* guard.clone(), second word.
SnapshotReadLen(c) ==
    /\ caller_pc[c] = "read_len"
    /\ caller_local' = [caller_local EXCEPT ![c].len = docker_data.len]
    /\ caller_pc' = [caller_pc EXCEPT ![c] = "return"]
    /\ UNCHANGED <<docker_data, lock_owner, worker_pc, worker_stats, committed,
                   caller_result, caller_old_new>>
    /\ UNCHANGED poll_result
    /\ UNCHANGED notSnapVars

\* The clone is returned and the guard dropped.
SnapshotReturn(c) ==
    /\ caller_pc[c] = "return"
    /\ caller_result' = [caller_result EXCEPT ![c] = caller_local[c]]
    /\ lock_owner' = IF lock_owner = caller_thread(c) THEN unlocked ELSE lock_owner
    /\ caller_pc' = [caller_pc EXCEPT ![c] = "idle"]
    /\ UNCHANGED <<docker_data, worker_pc, worker_stats, committed,
                   caller_local, caller_old_new>>
    /\ UNCHANGED poll_result
    /\ UNCHANGED notSnapVars

(***************************************************************************)
(* Container lifecycle commands: execute_context_action and its threads    *)
(***************************************************************************)
\* The most commands handed to detached threads in one run.
MaxDispatches == 2

\* compose_group_from_labels: a project with a working directory, a project
\* without one, and no compose labels at all.
GROUP_app == [name |-> "app", path |-> Some("/app")]
GROUP_db == [name |-> "db", path |-> None]
GROUP_Other == [name |-> "Other", path |-> None]

\* The containers the engine lists: two of one project with a working
\* directory, or one of a project without it and one without labels.
LifeContainers ==
    { << [id |-> "c1", name |-> "web",
          group_name |-> groups[1].name, group_path |-> groups[1].path],
         [id |-> "c2", name |-> "db",
          group_name |-> groups[2].name, group_path |-> groups[2].path] >> :
        groups \in {<<GROUP_app, GROUP_app>>, <<GROUP_db, GROUP_Other>>} }

LifeIds == {"c1", "c2"}

LifecycleActions == {"Start", "Stop", "Restart"}

\* A mutation of expected_running: every action is expected to end running.
expected_always_running(action) == TRUE

\* let expected_running = !matches!(action, ContextMenuAction::Stop)
expected_running(action) == action # "Stop"

\* The menu items of a container row, by its running flag.
container_items(running) ==
    IF running THEN {"Shell", "Logs", "Env", "Stop", "Restart"}
    ELSE {"Logs", "Env", "Start"}

\* The menu items of a group row.
group_items == {"Start", "Stop", "Restart"}

\* The menus handle_docker_right_click can open over the rows on screen.
menus_for(containers, raw) ==
    { [target |-> [kind |-> "Container", id |-> c.id, name |-> c.name, path |-> None],
       items |-> container_items(raw[c.id])] :
          c \in {containers[i] : i \in 1..Len(containers)} }
    \cup
    { [target |-> [kind |-> "Group", id |-> "", name |-> c.group_name,
                   path |-> c.group_path],
       items |-> group_items] :
          c \in {containers[i] : i \in 1..Len(containers)} }

\* The container ids a target selects, in list order.
RECURSIVE group_members(_, _)
group_members(containers, path) ==
    IF containers = <<>> THEN <<>>
    ELSE LET rest == group_members(Tail(containers), path)
         IN IF Head(containers).group_path = path
            THEN <<Head(containers).id>> \o rest
            ELSE rest

target_ids(containers, target) ==
    IF target.kind = "Container" THEN <<target.id>>
    ELSE group_members(containers, target.path)

\* The commands handed to detached threads so far.
RECURSIVE dispatched_count(_)
dispatched_count(dispatches) ==
    IF dispatches = <<>> THEN 0
    ELSE Len(Head(dispatches)) + dispatched_count(Tail(dispatches))

\* A mutation of insert_pending: only the first selected id is recorded.
insert_pending_first(pending, ids, expected) ==
    [id \in DOMAIN pending |->
        IF ids # <<>> /\ ids[1] = id THEN Some(expected) ELSE pending[id]]

\* state.pending_operations.insert(id, expected_running) for each id.
insert_pending(pending, ids, expected) ==
    [id \in DOMAIN pending |->
        IF \E k \in 1..Len(ids) : ids[k] = id THEN Some(expected) ELSE pending[id]]

action_name(action) ==
    CASE action = "Start" -> "Starting"
      [] action = "Stop" -> "Stopping"
      [] OTHER -> "Restarting"

\* A mutation of sent_events: a failed command reports nothing.
sent_events_on_success(container_id, ok) ==
    IF ok THEN <<[container_id |-> container_id, success |-> ok]>> ELSE <<>>

\* let _ = tx.send(OperationComplete { container_id, success, message })
sent_events(container_id, ok) ==
    <<[container_id |-> container_id, success |-> ok]>>

\* start_container / stop_container / restart_container: what the engine
\* command can leave behind, by its result.
engine_outcomes(action, running, ok) ==
    IF ok THEN {expected_running(action)}
    ELSE IF action = "Restart" THEN {running, FALSE}
    ELSE {running}

\* The main loop reconciles against a snapshot: an entry goes once the
\* snapshot shows the expected running-state.
reconcile_pending(pending, raw) ==
    [id \in DOMAIN pending |->
        IF pending[id].some /\ raw[id] = pending[id].v THEN None ELSE pending[id]]

reconciled_ids(pending, raw) ==
    {id \in DOMAIN pending : pending[id].some /\ raw[id] = pending[id].v}

LifeInit ==
    /\ engine_running \in [LifeIds -> BOOLEAN]
    /\ published = engine_running
    /\ docker_raw = engine_running
    /\ pending_operations = [id \in LifeIds |-> None]
    /\ context_menu = None
    /\ message = <<>>
    /\ spawn_queue = <<>>
    /\ spawn_action = ""
    /\ threads = <<>>
    /\ operation_channel = <<>>
    /\ batches = <<>>
    /\ received = <<>>
    /\ entry_state = [id \in LifeIds |-> "never"]
    /\ life_containers \in LifeContainers

LifeIdle ==
    /\ engine_running = <<>>
    /\ published = <<>>
    /\ docker_raw = <<>>
    /\ pending_operations = <<>>
    /\ context_menu = None
    /\ message = <<>>
    /\ spawn_queue = <<>>
    /\ spawn_action = ""
    /\ threads = <<>>
    /\ operation_channel = <<>>
    /\ batches = <<>>
    /\ received = <<>>
    /\ entry_state = <<>>
    /\ life_containers = <<>>

main_thread_free == spawn_queue = <<>>

lifeHistoryVars == <<batches, received, entry_state>>

\* handle_docker_right_click: a right click on a container or a group row.
OpenContextMenu ==
    /\ main_thread_free
    /\ context_menu = None
    /\ \E menu \in menus_for(life_containers, docker_raw) :
        /\ dispatched_count(batches) + Len(target_ids(life_containers, menu.target))
               <= MaxDispatches
        /\ context_menu' = Some(menu)
    /\ UNCHANGED <<engine_running, published, docker_raw, pending_operations, message,
                   spawn_queue, spawn_action, threads, operation_channel, lifeHistoryVars>>
    /\ UNCHANGED life_containers
    /\ UNCHANGED notLifeVars

\* handle_mouse_event: a click outside the open menu, or a right click.
CloseContextMenu ==
    /\ main_thread_free
    /\ context_menu # None
    /\ context_menu' = None
    /\ UNCHANGED <<engine_running, published, docker_raw, pending_operations, message,
                   spawn_queue, spawn_action, threads, operation_channel, lifeHistoryVars>>
    /\ UNCHANGED life_containers
    /\ UNCHANGED notLifeVars

\* execute_context_action up to the first thread::spawn: the menu closes,
\* the message is set and the expected state of every selected container
\* is recorded.
DispatchRecord ==
    /\ main_thread_free
    /\ context_menu # None
    /\ \E action \in context_menu.v.items \cap LifecycleActions :
        LET target == context_menu.v.target
            ids == target_ids(life_containers, target)
        IN /\ context_menu' = None
           /\ IF ids = <<>>
              THEN /\ message' = <<"No containers found in", target.name>>
                   /\ UNCHANGED <<pending_operations, spawn_queue, spawn_action,
                                  batches, entry_state>>
              ELSE /\ message' = IF target.kind = "Container"
                                  THEN <<action_name(action), target.name>>
                                  ELSE <<action_name(action), Len(ids), target.name>>
                   /\ pending_operations' =
                          insert_pending(pending_operations, ids, expected_running(action))
                   /\ spawn_queue' = ids
                   /\ spawn_action' = action
                   /\ batches' = Append(batches, ids)
                   /\ entry_state' = [id \in LifeIds |->
                          IF \E k \in 1..Len(ids) : ids[k] = id
                          THEN "recorded" ELSE entry_state[id]]
    /\ UNCHANGED <<engine_running, published, docker_raw, threads, operation_channel,
                   received>>
    /\ UNCHANGED life_containers
    /\ UNCHANGED notLifeVars

\* execute_context_action: std::thread::spawn for the next selected container.
\* history: a thread spawned earlier for the same container has not run its
\* command yet.
unfinished_for(spawned, container_id) ==
    \E u \in 1..Len(spawned) :
        spawned[u].container_id = container_id /\ spawned[u].pc = "spawned"

DispatchSpawn ==
    /\ spawn_queue # <<>>
    /\ threads' = Append(threads,
           [container_id |-> Head(spawn_queue), action |-> spawn_action,
            batch |-> Len(batches), pc |-> "spawned", ok |-> FALSE,
            overlaps |-> unfinished_for(threads, Head(spawn_queue))])
    /\ spawn_queue' = Tail(spawn_queue)
    /\ spawn_action' = IF Tail(spawn_queue) = <<>> THEN "" ELSE spawn_action
    /\ UNCHANGED <<engine_running, published, docker_raw, pending_operations,
                   context_menu, message, operation_channel, lifeHistoryVars>>
    /\ UNCHANGED life_containers
    /\ UNCHANGED notLifeVars

\* The spawned closure: it runs its engine command, which succeeds or
\* fails, sends what it has to report and ends.
UnitRun(u) ==
    /\ threads[u].pc = "spawned"
    /\ \E ok \in BOOLEAN :
        \E after \in engine_outcomes(threads[u].action,
                                     engine_running[threads[u].container_id], ok) :
           /\ engine_running' =
                  [engine_running EXCEPT ![threads[u].container_id] = after]
           /\ operation_channel' =
                  operation_channel \o sent_events(threads[u].container_id, ok)
           /\ threads' = [threads EXCEPT ![u].pc = "done", ![u].ok = ok]
    /\ UNCHANGED <<published, docker_raw, pending_operations, context_menu, message,
                   spawn_queue, spawn_action, lifeHistoryVars>>
    /\ UNCHANGED life_containers
    /\ UNCHANGED notLifeVars

\* The worker polls the engine and publishes what it lists.
LifeWorkerPublish ==
    /\ published' = engine_running
    /\ UNCHANGED <<engine_running, docker_raw, pending_operations, context_menu, message,
                   spawn_queue, spawn_action, threads, operation_channel, lifeHistoryVars>>
    /\ UNCHANGED life_containers
    /\ UNCHANGED notLifeVars

\* The main loop takes the worker's snapshot and reconciles against it.
LifePull ==
    /\ main_thread_free
    /\ docker_raw' = published
    /\ pending_operations' = reconcile_pending(pending_operations, published)
    /\ entry_state' = [id \in LifeIds |->
           IF id \in reconciled_ids(pending_operations, published)
           THEN "snapshot" ELSE entry_state[id]]
    /\ UNCHANGED <<engine_running, published, context_menu, message, spawn_queue,
                   spawn_action, threads, operation_channel, batches, received>>
    /\ UNCHANGED life_containers
    /\ UNCHANGED notLifeVars

\* The main loop drains one completion event: a failure is surfaced at
\* once and its entry dropped, a success waits for the snapshot.
DrainCompletion ==
    /\ main_thread_free
    /\ operation_channel # <<>>
    /\ LET event == Head(operation_channel)
       IN IF event.success
          THEN UNCHANGED <<pending_operations, message, entry_state>>
          ELSE /\ message' = <<"Error", event.container_id>>
               /\ pending_operations' =
                      [pending_operations EXCEPT ![event.container_id] = None]
               /\ entry_state' = [entry_state EXCEPT ![event.container_id] =
                      IF pending_operations[event.container_id].some
                      THEN "failure" ELSE @]
    /\ operation_channel' = Tail(operation_channel)
    /\ received' = Append(received, Head(operation_channel))
    /\ UNCHANGED <<engine_running, published, docker_raw, context_menu, spawn_queue,
                   spawn_action, threads, batches>>
    /\ UNCHANGED life_containers
    /\ UNCHANGED notLifeVars

(***************************************************************************)
(* The main loop and the external commands it runs                         *)
(***************************************************************************)
ViewModes == {"Process", "Docker", "DockerEnv", "Ports", "Node"}

\* The external programs the main thread starts with Command::output().
ExternalCommands ==
    {"docker ps names", "docker ps ports", "pm2 ping", "pm2 jlist", "node --version"}

all_dirty == [process |-> TRUE, ports |-> TRUE, node |-> TRUE]

\* The dirty flag the one-second tick sets for the active view.
tick_dirty(view, flags) ==
    CASE view = "Process" -> [flags EXCEPT !.process = TRUE]
      [] view = "Ports" -> [flags EXCEPT !.ports = TRUE]
      [] view = "Node" -> [flags EXCEPT !.node = TRUE]
      [] OTHER -> flags

MainInit ==
    /\ main_view = "Process"
    /\ main_pc = "poll"
    /\ dirty = all_dirty
    /\ external_command = None
    /\ resume_at = ""
    /\ hung_commands \in SUBSET ExternalCommands

MainIdle ==
    /\ main_view = "Process"
    /\ main_pc = "off"
    /\ dirty = all_dirty
    /\ external_command = None
    /\ resume_at = ""
    /\ hung_commands = {}

\* Command::output(): the main thread starts the command and waits for it.
run_external(command, resume) ==
    /\ main_pc' = "external"
    /\ external_command' = Some(command)
    /\ resume_at' = resume

\* event::poll(input_poll) times out with no event.
InputPollTimeout ==
    /\ main_pc = "poll"
    /\ main_pc' = "tick"
    /\ UNCHANGED <<main_view, dirty, external_command, resume_at, hung_commands>>
    /\ UNCHANGED notMainVars

\* event::poll returns a key that handle_key_event turns into set_view.
KeySetView(view) ==
    /\ main_pc = "poll"
    /\ main_view' = view
    /\ dirty' = IF view # main_view THEN all_dirty ELSE dirty
    /\ main_pc' = "tick"
    /\ UNCHANGED <<external_command, resume_at, hung_commands>>
    /\ UNCHANGED notMainVars

\* The tick: when tick_rate has elapsed the active view is marked dirty.
Tick ==
    /\ main_pc = "tick"
    /\ \E elapsed \in BOOLEAN :
          dirty' = IF elapsed THEN tick_dirty(main_view, dirty) ELSE dirty
    /\ main_pc' = "view"
    /\ UNCHANGED <<main_view, external_command, resume_at, hung_commands>>
    /\ UNCHANGED notMainVars

\* ViewMode::Process: maybe_refresh_container_cache runs `docker ps` when
\* its five seconds have elapsed, then the processes are collected.
ViewProcess ==
    /\ main_pc = "view"
    /\ main_view = "Process"
    /\ IF dirty.process
       THEN \E refresh_due \in BOOLEAN :
               IF refresh_due
               THEN run_external("docker ps names", "collect_processes")
               ELSE /\ main_pc' = "collect_processes"
                    /\ UNCHANGED <<external_command, resume_at>>
       ELSE /\ main_pc' = "poll"
            /\ UNCHANGED <<external_command, resume_at>>
    /\ UNCHANGED <<main_view, dirty, hung_commands>>
    /\ UNCHANGED notMainVars

\* collect_processes, build_tree_rows, render.
CollectProcesses ==
    /\ main_pc = "collect_processes"
    /\ dirty' = [dirty EXCEPT !.process = FALSE]
    /\ main_pc' = "poll"
    /\ UNCHANGED <<main_view, external_command, resume_at, hung_commands>>
    /\ UNCHANGED notMainVars

\* ViewMode::Docker and ViewMode::DockerEnv: the worker's snapshot is
\* taken and rendered, no command is run.
ViewDocker ==
    /\ main_pc = "view"
    /\ main_view \in {"Docker", "DockerEnv"}
    /\ main_pc' = "poll"
    /\ UNCHANGED <<main_view, dirty, external_command, resume_at, hung_commands>>
    /\ UNCHANGED notMainVars

\* ViewMode::Ports: collect_ports runs load_docker_port_bindings.
ViewPorts ==
    /\ main_pc = "view"
    /\ main_view = "Ports"
    /\ IF dirty.ports
       THEN run_external("docker ps ports", "group_ports")
       ELSE /\ main_pc' = "poll"
            /\ UNCHANGED <<external_command, resume_at>>
    /\ UNCHANGED <<main_view, dirty, hung_commands>>
    /\ UNCHANGED notMainVars

\* The rest of the Ports arm: filter, group_ports, render.
GroupPortsDone ==
    /\ main_pc = "group_ports"
    /\ dirty' = [dirty EXCEPT !.ports = FALSE]
    /\ main_pc' = "poll"
    /\ UNCHANGED <<main_view, external_command, resume_at, hung_commands>>
    /\ UNCHANGED notMainVars

\* ViewMode::Node: is_pm2_running runs `pm2 ping`.
ViewNode ==
    /\ main_pc = "view"
    /\ main_view = "Node"
    /\ IF dirty.node
       THEN run_external("pm2 ping", "detect_node_processes")
       ELSE /\ main_pc' = "poll"
            /\ UNCHANGED <<external_command, resume_at>>
    /\ UNCHANGED <<main_view, dirty, hung_commands>>
    /\ UNCHANGED notMainVars

\* collect_node_processes: detect_node_processes runs `node --version`
\* for an interpreter whose version is not cached yet.
DetectNodeProcesses ==
    /\ main_pc = "detect_node_processes"
    /\ \E version_cached \in BOOLEAN :
          IF version_cached
          THEN /\ main_pc' = "load_pm2_processes"
               /\ UNCHANGED <<external_command, resume_at>>
          ELSE run_external("node --version", "load_pm2_processes")
    /\ UNCHANGED <<main_view, dirty, hung_commands>>
    /\ UNCHANGED notMainVars

\* collect_node_processes: load_pm2_processes runs `pm2 jlist`.
LoadPm2Processes ==
    /\ main_pc = "load_pm2_processes"
    /\ run_external("pm2 jlist", "node_rows")
    /\ UNCHANGED <<main_view, dirty, hung_commands>>
    /\ UNCHANGED notMainVars

\* The rest of the Node arm: split, group, render.
NodeRowsDone ==
    /\ main_pc = "node_rows"
    /\ dirty' = [dirty EXCEPT !.node = FALSE]
    /\ main_pc' = "poll"
    /\ UNCHANGED <<main_view, external_command, resume_at, hung_commands>>
    /\ UNCHANGED notMainVars

\* The command the main thread waits for exits; one that hangs never does.
ExternalReturns ==
    /\ main_pc = "external"
    /\ external_command.v \notin hung_commands
    /\ main_pc' = resume_at
    /\ external_command' = None
    /\ resume_at' = ""
    /\ UNCHANGED <<main_view, dirty, hung_commands>>
    /\ UNCHANGED notMainVars

(***************************************************************************)
(* group_containers                                                        *)
(***************************************************************************)
MaxContainers == 3

\* const OTHER: &str = "Other" (OTHER is a reserved word here)
OTHER_NAME == "Other"

\* The grouping keys in the byte order a BTreeMap<String, _> iterates them.
GroupKeyOrder == <<"/srv/Other", "/srv/app", "Other", "db">>

\* What compose_group_from_labels can make of a container's labels: a
\* project with a working directory, one whose directory is named Other,
\* no compose labels at all, and a project label alone.
ComposeGroups ==
    { [group_name |-> "app", group_path |-> Some("/srv/app")],
      [group_name |-> "Other", group_path |-> Some("/srv/Other")],
      [group_name |-> OTHER_NAME, group_path |-> None],
      [group_name |-> "db", group_path |-> None] }

\* parse_activity_time: seconds since the last state change.
ActivitySecs == {1, 2, 3}

container_id_at(k) == <<"c", k>>

\* The lists of at most `longest` containers that load_docker_stats can
\* publish: distinct ids, any groups.
ContainerInputs(longest) ==
    UNION { { [k \in 1..n |->
                 [id |-> container_id_at(k),
                  group_name |-> g[k].group_name,
                  group_path |-> g[k].group_path,
                  running |-> a[k] = 1,
                  activity_secs |-> a[k]]] :
              g \in [1..n -> ComposeGroups], a \in [1..n -> ActivitySecs] } :
            n \in 0..longest }

\* container.group_path.clone().unwrap_or_else(|| container.group_name.to_string())
group_key(container) ==
    IF container.group_path.some THEN container.group_path.v ELSE container.group_name

RECURSIVE containers_with_key(_, _)
containers_with_key(containers, key) ==
    IF containers = <<>> THEN <<>>
    ELSE LET rest == containers_with_key(Tail(containers), key)
         IN IF group_key(Head(containers)) = key
            THEN <<Head(containers)>> \o rest
            ELSE rest

RECURSIVE min_activity_of(_)
min_activity_of(containers) ==
    IF Len(containers) = 1 THEN containers[1].activity_secs
    ELSE LET rest == min_activity_of(Tail(containers))
         IN IF containers[1].activity_secs < rest
            THEN containers[1].activity_secs ELSE rest

\* The bucket of one key: named after the first container that has it.
bucket_for(containers, key) ==
    LET members == containers_with_key(containers, key)
    IN [key |-> key,
        name |-> members[1].group_name,
        path |-> members[1].group_path,
        containers |-> members,
        min_activity |-> min_activity_of(members)]

\* grouped: the buckets in key order.
RECURSIVE grouped_buckets(_, _)
grouped_buckets(containers, keys) ==
    IF keys = <<>> THEN <<>>
    ELSE LET rest == grouped_buckets(containers, Tail(keys))
         IN IF containers_with_key(containers, Head(keys)) = <<>>
            THEN rest
            ELSE <<bucket_for(containers, Head(keys))>> \o rest

\* A mutation of bucket_goes_before: the least recent bucket first.
bucket_goes_after(a, b) == a.min_activity >= b.min_activity

\* sort_by_key(|b| b.min_activity): a stays ahead of a later bucket b
\* unless b is strictly more recent.
bucket_goes_before(a, b) == a.min_activity <= b.min_activity

\* Stable insertion of x into a sorted list of buckets.
RECURSIVE insert_bucket(_, _)
insert_bucket(sorted, x) ==
    IF sorted = <<>> THEN <<x>>
    ELSE IF bucket_goes_before(Head(sorted), x)
         THEN <<Head(sorted)>> \o insert_bucket(Tail(sorted), x)
         ELSE <<x>> \o sorted

RECURSIVE sort_buckets(_, _)
sort_buckets(sorted, todo) ==
    IF todo = <<>> THEN sorted
    ELSE sort_buckets(insert_bucket(sorted, Head(todo)), Tail(todo))

\* bucket.containers.sort_by_key(|c| c.activity_secs), stable.
RECURSIVE insert_container(_, _)
insert_container(sorted, x) ==
    IF sorted = <<>> THEN <<x>>
    ELSE IF Head(sorted).activity_secs <= x.activity_secs
         THEN <<Head(sorted)>> \o insert_container(Tail(sorted), x)
         ELSE <<x>> \o sorted

RECURSIVE sort_containers(_, _)
sort_containers(sorted, todo) ==
    IF todo = <<>> THEN sorted
    ELSE sort_containers(insert_container(sorted, Head(todo)), Tail(todo))

\* A mutation of item_index: the position within the group.
item_index_in_group(flat_len, idx) == idx

\* let idx = flat.len(): the position the container takes in the flat list.
item_index(flat_len, idx) == flat_len

item_prefix(is_last) == IF is_last THEN "  L- " ELSE "  |- "

\* The Item rows of one bucket, its containers already sorted.
item_rows_of(containers, flat_len) ==
    [idx \in 1..Len(containers) |->
        [kind |-> "Item",
         index |-> item_index(flat_len + (idx - 1), idx - 1),
         prefix |-> item_prefix(idx = Len(containers))]]

running_count_of(containers) ==
    Cardinality({k \in 1..Len(containers) : containers[k].running})

group_row_of(bucket) ==
    [kind |-> "Group", name |-> bucket.name, path |-> bucket.path,
     count |-> Len(bucket.containers),
     running_count |-> running_count_of(bucket.containers)]

separator_row == [kind |-> "Separator"]

\* The loop over the sorted buckets: a Separator unless this is the first
\* group, the Group row, then the Item rows as the flat list grows.
RECURSIVE emit_buckets(_, _, _, _)
emit_buckets(buckets, flat, rows, first_group) ==
    IF buckets = <<>> THEN [flat |-> flat, rows |-> rows]
    ELSE LET sorted == sort_containers(<<>>, Head(buckets).containers)
             sep == IF first_group THEN <<>> ELSE <<separator_row>>
         IN emit_buckets(Tail(buckets),
                         flat \o sorted,
                         rows \o sep \o <<group_row_of(Head(buckets))>>
                              \o item_rows_of(sorted, Len(flat)),
                         FALSE)

\* The Other bucket, after all the others: a Separator if any row is there.
emit_other(other, flat, rows) ==
    IF ~other.some THEN [flat |-> flat, rows |-> rows]
    ELSE LET sorted == sort_containers(<<>>, other.v.containers)
             sep == IF rows # <<>> THEN <<separator_row>> ELSE <<>>
         IN [flat |-> flat \o sorted,
             rows |-> rows \o sep \o <<group_row_of(other.v)>>
                           \o item_rows_of(sorted, Len(flat))]

group_containers(containers) ==
    LET grouped == grouped_buckets(containers, GroupKeyOrder)
        other == IF \E k \in 1..Len(grouped) : grouped[k].key = OTHER_NAME
                 THEN Some(bucket_for(containers, OTHER_NAME))
                 ELSE None
        remaining == SelectSeq(grouped, LAMBDA b : b.key # OTHER_NAME)
        buckets == sort_buckets(<<>>, remaining)
        main == emit_buckets(buckets, <<>>, <<>>, TRUE)
    IN emit_other(other, main.flat, main.rows)

GcInit ==
    /\ docker_view \in ContainerInputs(MaxContainers)
    /\ docker_rows = <<>>
    /\ docker_dirty = TRUE
    /\ grouped_from = <<>>

GcIdle ==
    /\ docker_view = <<>>
    /\ docker_rows = <<>>
    /\ docker_dirty = FALSE
    /\ grouped_from = <<>>

\* The Docker arm of the main loop: group_containers replaces the view
\* by the flat list and the rows by the new rows.
DockerRegroup ==
    /\ docker_dirty
    /\ LET result == group_containers(docker_view)
       IN /\ docker_view' = result.flat
          /\ docker_rows' = result.rows
    /\ docker_dirty' = FALSE
    /\ grouped_from' = docker_view
    /\ UNCHANGED notGcVars

(***************************************************************************)
(* collect_node_processes: detection, PM2 enrichment, the rows of PM2      *)
(* entries without a detected process, the merge of cluster workers and    *)
(* the final sort (node/mod.rs). The filter is the empty string. The       *)
(* fields project_name and node_version take no part in any of this and    *)
(* are left out of the records.                                            *)
(***************************************************************************)
MaxDetected == 2

MaxPm2 == 2

DetectedPids == 1..MaxDetected

ScriptPaths == {"a.js", "b.js"}

MemoryReadings == {1, 2}

\* detect_node_processes: one record per Node.js process of the system
\* snapshot, with no PM2 data and a worker count of one.
detected_info(pid, script, memory) ==
    [pid |-> pid, name |-> "node", script |-> script, uses_nvm |-> FALSE,
     cpu |-> 1, memory_bytes |-> memory, uptime_secs |-> Some(9),
     pm2 |-> None, worker_count |-> 1]

detect_node_processes(system, order) ==
    [i \in 1..Len(order) |-> system[order[i]]]

\* One element of the PM2 list as parse_pm2_object builds it. An entry of a
\* process that is not running carries pid 0, or no pid at all when the
\* field reads null.
pm2_process(pm_id, pid, status) ==
    [pm_id |-> pm_id, name |-> "api", mode |-> "fork", status |-> status,
     pid |-> pid, cpu |-> Some(5), memory_bytes |-> Some(7), restarts |-> 0,
     uptime_ms |-> Some(3000), script |-> Some("a.js")]

Pm2Entries(pm_id) ==
    {pm2_process(pm_id, Some(pid), "online") : pid \in DetectedPids \cup {MaxDetected + 1}}
    \cup {pm2_process(pm_id, pid, status) :
             pid \in {None, Some(0)}, status \in {"stopped", "errored"}}

\* PM2 numbers its entries, and two entries that run have different pids.
Pm2Lists ==
    {l \in UNION {[1..n -> UNION {Pm2Entries(k) : k \in 0..(MaxPm2 - 1)}] : n \in 0..MaxPm2} :
        /\ \A i \in 1..Len(l) : l[i].pm_id = i - 1
        /\ \A i, j \in 1..Len(l) :
              i # j /\ l[i].pid.some /\ l[i].pid = l[j].pid => l[i].pid.v = 0}

pm2_info(pm2_proc) ==
    [pm_id |-> pm2_proc.pm_id, name |-> pm2_proc.name, mode |-> pm2_proc.mode,
     status |-> pm2_proc.status, restarts |-> pm2_proc.restarts,
     pm2_uptime |-> IF pm2_proc.uptime_ms.some
                    THEN Some(pm2_proc.uptime_ms.v \div 1000) ELSE None]

\* pm2_by_pid.get(pid): the map is collected from the list, so of two
\* entries with one pid the later one stays.
pm2_by_pid(pm2, pid) ==
    LET hits == {i \in 1..Len(pm2) : pm2[i].pid = Some(pid)}
    IN  IF hits = {} THEN None
        ELSE Some(pm2[CHOOSE i \in hits : \A j \in hits : j <= i])

enrich(node_proc, pm2) ==
    LET hit == pm2_by_pid(pm2, node_proc.pid)
    IN  IF ~hit.some THEN node_proc
        ELSE [node_proc EXCEPT
                 !.name = hit.v.name,
                 !.pm2 = Some(pm2_info(hit.v)),
                 !.uptime_secs = IF hit.v.uptime_ms.some
                                 THEN Some(hit.v.uptime_ms.v \div 1000) ELSE @,
                 !.cpu = IF hit.v.cpu.some THEN hit.v.cpu.v ELSE @]

\* is_tracked looks at node_procs as it is when the entry is reached, rows
\* pushed for earlier entries included.
is_tracked_ignoring_pid(node_procs, pm2_proc) == FALSE

is_tracked(node_procs, pm2_proc) ==
    /\ pm2_proc.pid.some
    /\ \E i \in 1..Len(node_procs) : node_procs[i].pid = pm2_proc.pid.v

stopped_row(pm2_proc) ==
    [pid |-> IF pm2_proc.pid.some THEN pm2_proc.pid.v ELSE 0,
     name |-> pm2_proc.name,
     script |-> IF pm2_proc.script.some THEN pm2_proc.script.v ELSE "-",
     uses_nvm |-> FALSE,
     cpu |-> IF pm2_proc.cpu.some THEN pm2_proc.cpu.v ELSE 0,
     memory_bytes |-> IF pm2_proc.memory_bytes.some THEN pm2_proc.memory_bytes.v ELSE 0,
     uptime_secs |-> IF pm2_proc.uptime_ms.some
                     THEN Some(pm2_proc.uptime_ms.v \div 1000) ELSE None,
     pm2 |-> Some(pm2_info(pm2_proc)),
     worker_count |-> 1]

RECURSIVE add_untracked(_, _)
add_untracked(node_procs, pm2) ==
    IF pm2 = <<>> THEN node_procs
    ELSE add_untracked(
             IF is_tracked(node_procs, Head(pm2)) THEN node_procs
             ELSE Append(node_procs, stopped_row(Head(pm2))),
             Tail(pm2))

\* group.sort_by_key(|p| p.pid): a stable sort.
RECURSIVE sort_by_pid(_)
sort_by_pid(group) ==
    IF group = <<>> THEN <<>>
    ELSE LET least == CHOOSE i \in 1..Len(group) :
                          /\ \A j \in 1..Len(group) : group[i].pid <= group[j].pid
                          /\ \A j \in 1..(i - 1) : group[j].pid # group[i].pid
         IN  <<group[least]>>
             \o sort_by_pid(select_seq(group, [j \in 1..Len(group) |-> j # least]))

RECURSIVE sum_of(_, _)
sum_of(group, field) ==
    IF group = <<>> THEN 0 ELSE Head(group)[field] + sum_of(Tail(group), field)

merge_keeps_own_memory(group) ==
    LET sorted == sort_by_pid(group)
    IN  [sorted[1] EXCEPT
            !.cpu = sum_of(group, "cpu"),
            !.worker_count = Len(group),
            !.uses_nvm = \E i \in 1..Len(group) : group[i].uses_nvm]

merge_group(group) ==
    IF Len(group) = 1 THEN group[1]
    ELSE LET sorted == sort_by_pid(group)
         IN  [sorted[1] EXCEPT
                 !.cpu = sum_of(group, "cpu"),
                 !.memory_bytes = sum_of(group, "memory_bytes"),
                 !.worker_count = Len(group),
                 !.uses_nvm = \E i \in 1..Len(group) : group[i].uses_nvm]

script_keys(procs) == {procs[i].script : i \in {j \in 1..Len(procs) : ~procs[j].pm2.some}}

\* key_order is the order in which the hash map of the groups is walked.
group_cluster_workers(procs, key_order) ==
    LET pm2_rows == select_seq(procs, [i \in 1..Len(procs) |-> procs[i].pm2.some])
        non_pm2 == select_seq(procs, [i \in 1..Len(procs) |-> ~procs[i].pm2.some])
        group_of(key) == select_seq(non_pm2, [i \in 1..Len(non_pm2) |-> non_pm2[i].script = key])
        merged == [k \in 1..Len(key_order) |-> merge_group(group_of(key_order[k]))]
    IN  merged \o pm2_rows

\* The comparator of the final sort: PM2 rows by pm_id and before the
\* others, the others by pid.
node_cmp(a, b) ==
    IF a.pm2.some /\ b.pm2.some THEN cmp_int(a.pm2.v.pm_id, b.pm2.v.pm_id)
    ELSE IF a.pm2.some THEN -1
    ELSE IF b.pm2.some THEN 1
    ELSE cmp_int(a.pid, b.pid)

\* Vec::sort_by is stable: of equal rows the earlier one comes first.
RECURSIVE sort_node_procs(_)
sort_node_procs(procs) ==
    IF procs = <<>> THEN <<>>
    ELSE LET least == CHOOSE i \in 1..Len(procs) :
                          /\ \A j \in 1..Len(procs) : node_cmp(procs[i], procs[j]) <= 0
                          /\ \A j \in 1..(i - 1) : node_cmp(procs[j], procs[i]) # 0
         IN  <<procs[least]>>
             \o sort_node_procs(select_seq(procs, [j \in 1..Len(procs) |-> j # least]))

NodeSystems ==
    UNION {[pids -> {detected_info(0, s, m) : s \in ScriptPaths, m \in MemoryReadings}] :
              pids \in SUBSET DetectedPids}

NodeCollectInit ==
    /\ \E system \in NodeSystems :
          node_system = [pid \in DOMAIN system |-> [system[pid] EXCEPT !.pid = pid]]
    /\ pm2_procs \in Pm2Lists
    /\ cluster_from = <<>>
    /\ cluster_merged = <<>>
    /\ collected = <<>>
    /\ collect_done = FALSE

NodeCollectIdle ==
    /\ node_system = <<>>
    /\ pm2_procs = <<>>
    /\ cluster_from = <<>>
    /\ cluster_merged = <<>>
    /\ collected = <<>>
    /\ collect_done = FALSE

\* collect_node_processes(system, ""). The system's processes and the
\* groups of group_cluster_workers are walked in hash-map order.
CollectNodeProcesses ==
    /\ ~collect_done
    /\ \E order \in Permutations_of(DOMAIN node_system) :
          LET detected == detect_node_processes(node_system, order)
              enriched == [i \in 1..Len(detected) |-> enrich(detected[i], pm2_procs)]
              node_procs == add_untracked(enriched, pm2_procs)
          IN  \E key_order \in Permutations_of(script_keys(node_procs)) :
                 LET merged == group_cluster_workers(node_procs, key_order)
                 IN  /\ cluster_from' = node_procs
                     /\ cluster_merged' = merged
                     /\ collected' = sort_node_procs(merged)
    /\ collect_done' = TRUE
    /\ UNCHANGED <<node_system, pm2_procs>>
    /\ UNCHANGED notNodeCollectVars

(***************************************************************************)
(* collect_ports: the rows of the /proc socket tables, de-duplicated, then *)
(* the engine's port bindings that no socket row covers, sorted            *)
(* (ports/mod.rs). A PortInfo is its proto, port, pid and container id;    *)
(* names and paths take no part in the merge.                              *)
(***************************************************************************)
MaxProcRows == 2

MaxBindings == 2

\* parse_socket_table is called for these tables; a binding's protocol is
\* what follows the slash in the engine's port column, "tcp" when absent.
ProcProtos == {"tcp", "tcp6", "udp"}

BindingProtos == {"tcp", "udp"}

PortNumbers == {80, 443}

SocketOwners == {1, 2}

\* A row of parse_socket_table: a process owns the socket.
proc_port_row(proto, port, pid) ==
    [proto |-> proto, port |-> port, pid |-> pid, container_id |-> None]

\* A row of load_docker_port_bindings: pid 0 and the container's id.
docker_port_row(proto, port, id) ==
    [proto |-> proto, port |-> port, pid |-> 0, container_id |-> Some(id)]

ProcScans ==
    SeqsUpTo({proc_port_row(proto, port, pid) :
                 proto \in ProcProtos, port \in PortNumbers, pid \in SocketOwners},
             MaxProcRows)

DockerBindingLists ==
    SeqsUpTo({docker_port_row(proto, port, "c1") :
                 proto \in BindingProtos, port \in PortNumbers},
             MaxBindings)

\* The first loop: a row is kept when seen_proc has no (proto, port, pid)
\* like its own yet.
RECURSIVE dedup_proc_rows(_, _)
dedup_proc_rows(rows, seen_proc) ==
    IF rows = <<>> THEN <<>>
    ELSE LET key == <<Head(rows).proto, Head(rows).port, Head(rows).pid>>
         IN  IF key \in seen_proc THEN dedup_proc_rows(Tail(rows), seen_proc)
             ELSE <<Head(rows)>> \o dedup_proc_rows(Tail(rows), seen_proc \cup {key})

\* A mutation of seen_ports: the set stays empty.
seen_ports_empty(rows) == {}

seen_ports(rows) == {<<rows[i].proto, rows[i].port>> : i \in 1..Len(rows)}

\* The second loop: a binding is pushed unless a socket row has its
\* (proto, port).
add_bindings(rows, bindings) ==
    LET seen == seen_ports(rows)
    IN  rows \o select_seq(bindings,
                [i \in 1..Len(bindings) |->
                    <<bindings[i].proto, bindings[i].port>> \notin seen])

\* String::cmp on the protocols that occur.
proto_rank(proto) ==
    CASE proto = "tcp" -> 1
      [] proto = "tcp6" -> 2
      [] proto = "udp" -> 3
      [] proto = "udp6" -> 4

port_cmp(a, b) ==
    IF a.port # b.port THEN cmp_int(a.port, b.port)
    ELSE IF a.proto # b.proto THEN cmp_int(proto_rank(a.proto), proto_rank(b.proto))
    ELSE cmp_int(a.pid, b.pid)

\* Vec::sort_by is stable.
RECURSIVE sort_ports(_)
sort_ports(rows) ==
    IF rows = <<>> THEN <<>>
    ELSE LET least == CHOOSE i \in 1..Len(rows) :
                          /\ \A j \in 1..Len(rows) : port_cmp(rows[i], rows[j]) <= 0
                          /\ \A j \in 1..(i - 1) : port_cmp(rows[j], rows[i]) # 0
         IN  <<rows[least]>>
             \o sort_ports(select_seq(rows, [j \in 1..Len(rows) |-> j # least]))

collect_ports(rows, bindings) ==
    sort_ports(add_bindings(dedup_proc_rows(rows, {}), bindings))

PortsCollectInit ==
    /\ proc_scan \in ProcScans
    /\ docker_bindings \in DockerBindingLists
    /\ ports_collected = <<>>
    /\ ports_done = FALSE

PortsCollectIdle ==
    /\ proc_scan = <<>>
    /\ docker_bindings = <<>>
    /\ ports_collected = <<>>
    /\ ports_done = FALSE

CollectPorts ==
    /\ ~ports_done
    /\ ports_collected' = collect_ports(proc_scan, docker_bindings)
    /\ ports_done' = TRUE
    /\ UNCHANGED <<proc_scan, docker_bindings>>
    /\ UNCHANGED notPortsCollectVars

(***************************************************************************)
(* build_inode_pid_map: the inode-to-pid map of /proc behind a mutex, kept *)
(* for INODE_MAP_TTL (ports/proc.rs). Time is counted in whole seconds.    *)
(***************************************************************************)
INODE_MAP_TTL == 2

MaxTime == 4

MaxCalls == 3

ScanPids == {1, 2}

SocketInodes == {7}

ProcFdStates == SUBSET (ScanPids \X SocketInodes)

\* build_inode_pid_map_uncached: /proc is read in directory order, and of
\* the processes that hold one socket the first one read stays
\* (map.entry(inode).or_insert(pid)).
build_inode_pid_map_uncached(fds, dir_order) ==
    LET held == {inode \in SocketInodes : \E pid \in ScanPids : <<pid, inode>> \in fds}
        first_holder(inode) ==
            dir_order[CHOOSE i \in 1..Len(dir_order) :
                          /\ <<dir_order[i], inode>> \in fds
                          /\ \A j \in 1..(i - 1) : <<dir_order[j], inode>> \notin fds]
    IN  [inode \in held |-> first_holder(inode)]

\* Mutex::lock: Err(PoisonError) once the mutex is poisoned.
cache_lock(poisoned) == IF poisoned THEN "Err" ELSE "Ok"

\* A mutation of cache_is_fresh: a copy as old as the TTL still counts.
cache_is_fresh_at_ttl(cache, now) ==
    cache.some /\ now - cache.v.last_refresh <= INODE_MAP_TTL

\* cached.last_refresh.elapsed() < INODE_MAP_TTL
cache_is_fresh(cache, now) ==
    cache.some /\ now - cache.v.last_refresh < INODE_MAP_TTL

InodeInit ==
    /\ clock_now = 0
    /\ proc_fds \in ProcFdStates
    /\ inode_cache = None
    /\ cache_poisoned = FALSE
    /\ inode_result = <<>>
    /\ rescanned = FALSE
    /\ inode_calls = 0

InodeIdle ==
    /\ clock_now = 0
    /\ proc_fds = {}
    /\ inode_cache = None
    /\ cache_poisoned = FALSE
    /\ inode_result = <<>>
    /\ rescanned = FALSE
    /\ inode_calls = 0

\* A second passes.
ClockTick ==
    /\ clock_now < MaxTime
    /\ clock_now' = clock_now + 1
    /\ UNCHANGED <<proc_fds, inode_cache, cache_poisoned, inode_result, rescanned, inode_calls>>
    /\ UNCHANGED notInodeVars

\* Processes open and close sockets.
ProcFdsChange ==
    /\ \E fds \in ProcFdStates : fds # proc_fds /\ proc_fds' = fds
    /\ UNCHANGED <<clock_now, inode_cache, cache_poisoned, inode_result, rescanned, inode_calls>>
    /\ UNCHANGED notInodeVars

\* One call of build_inode_pid_map. With the guard (lock() is Ok) a fresh
\* copy is returned; otherwise /proc is scanned, which may take a second,
\* and the copy is replaced if the second lock() is Ok.
BuildInodePidMap ==
    /\ inode_calls < MaxCalls
    /\ inode_calls' = inode_calls + 1
    /\ IF cache_lock(cache_poisoned) = "Ok" /\ cache_is_fresh(inode_cache, clock_now)
       THEN /\ inode_result' = inode_cache.v.map
            /\ rescanned' = FALSE
            /\ UNCHANGED <<clock_now, inode_cache>>
       ELSE /\ \E dir_order \in Permutations_of(ScanPids) :
                  inode_result' = build_inode_pid_map_uncached(proc_fds, dir_order)
            /\ rescanned' = TRUE
            /\ \E took \in {0, 1} :
                  /\ clock_now + took <= MaxTime
                  /\ clock_now' = clock_now + took
            /\ inode_cache' =
                  IF cache_lock(cache_poisoned) = "Ok"
                  THEN Some([map |-> inode_result', last_refresh |-> clock_now'])
                  ELSE inode_cache
    /\ UNCHANGED <<proc_fds, cache_poisoned>>
    /\ UNCHANGED notInodeVars

\* A thread panics while it holds the guard of the cache: the guard is
\* dropped during the unwinding and the mutex is poisoned from then on.
PanicHoldingCacheLock ==
    /\ ~cache_poisoned
    /\ cache_poisoned' = TRUE
    /\ UNCHANGED <<clock_now, proc_fds, inode_cache, inode_result, rescanned, inode_calls>>
    /\ UNCHANGED notInodeVars

(***************************************************************************)
(* parse_pm2_json: the hand-written reader of the output of pm2 jlist      *)
(* (node/pm2.rs). A text is the sequence of its UTF-8 bytes: an ASCII      *)
(* character is one byte, written as itself, and the two bytes of a        *)
(* two-byte character are written "<C3>" and "<A9>". str::find and the     *)
(* slices json[a..b] count bytes, chars().enumerate() counts characters.   *)
(***************************************************************************)
MaxObjects == 2

\* The keys, the literals and the pieces of the JSON text, byte by byte.
KEY_pm_id == <<"p", "m", "_", "i", "d">>

KEY_name == <<"n", "a", "m", "e">>

KEY_pid == <<"p", "i", "d">>

KEY_pm2_env == <<"p", "m", "2", "_", "e", "n", "v">>

KEY_status == <<"s", "t", "a", "t", "u", "s">>

KEY_exec_mode == <<"e", "x", "e", "c", "_", "m", "o", "d", "e">>

KEY_restart_time == <<"r", "e", "s", "t", "a", "r", "t", "_", "t", "i", "m", "e">>

KEY_pm_uptime == <<"p", "m", "_", "u", "p", "t", "i", "m", "e">>

KEY_monit == <<"m", "o", "n", "i", "t">>

KEY_memory == <<"m", "e", "m", "o", "r", "y">>

KEY_cpu == <<"c", "p", "u">>

KEY_pm_exec_path == <<"p", "m", "_", "e", "x", "e", "c", "_", "p", "a", "t", "h">>

TEXT_unknown == <<"u", "n", "k", "n", "o", "w", "n">>

TEXT_cluster == <<"c", "l", "u", "s", "t", "e", "r">>

TEXT_fork == <<"f", "o", "r", "k">>

TEXT_online == <<"o", "n", "l", "i", "n", "e">>

TEXT_cluster_mode == <<"c", "l", "u", "s", "t", "e", "r", "_", "m", "o", "d", "e">>

TEXT_fork_mode == <<"f", "o", "r", "k", "_", "m", "o", "d", "e">>

TEXT_null == <<"n", "u", "l", "l">>

TEXT_1_5 == <<"1", ".", "5">>

NAME_api == <<"a", "p", "i">>

NAME_web_1 == <<"w", "e", "b", "-", "1">>

FRAG_pm_id == <<"{", "\"", "p", "m", "_", "i", "d", "\"", ":">>

FRAG_name == <<",", "\"", "n", "a", "m", "e", "\"", ":", "\"">>

FRAG_pid == <<"\"", ",", "\"", "p", "i", "d", "\"", ":">>

FRAG_status == <<",", "\"", "p", "m", "2", "_", "e", "n", "v", "\"", ":", "{", "\"", "s", "t", "a", "t", "u", "s", "\"", ":", "\"">>

FRAG_exec_mode == <<"\"", ",", "\"", "e", "x", "e", "c", "_", "m", "o", "d", "e", "\"", ":", "\"">>

FRAG_restart_time == <<"\"", ",", "\"", "r", "e", "s", "t", "a", "r", "t", "_", "t", "i", "m", "e", "\"", ":">>

FRAG_cpu == <<"}", ",", "\"", "m", "o", "n", "i", "t", "\"", ":", "{", "\"", "c", "p", "u", "\"", ":">>

FRAG_memory == <<",", "\"", "m", "e", "m", "o", "r", "y", "\"", ":">>

FRAG_end == <<"}", "}">>

NAME_cafe == <<"c", "a", "f", "<C3>", "<A9>">>

NAME_ea == <<"<C3>", "<A9>", "a">>

ContinuationBytes == {"<A9>"}

\* The value of an expression that panicked.
Panicked == <<"panic">>

\* str::is_char_boundary(index), index counted from 0.
is_char_boundary(text, index) ==
    index = 0 \/ index = Len(text) \/ (index < Len(text) /\ text[index + 1] \notin ContinuationBytes)

\* &text[from..]: panics when `from` is inside a character.
slice_from(text, from) ==
    IF ~is_char_boundary(text, from) THEN Panicked ELSE SubSeq(text, from + 1, Len(text))

\* &text[..to]
slice_to(text, to) ==
    IF ~is_char_boundary(text, to) THEN Panicked ELSE SubSeq(text, 1, to)

\* body(value), with `value` computed once before the body is.
with(value, body(_)) == CHOOSE result \in {body(x) : x \in {value}} : TRUE

\* A loop over the elements of `text` from `lo` to `hi`: `step` is the loop
\* body, `state` the loop's variables. The range is walked half by half,
\* the first half to its end before the second is entered.
RECURSIVE for_each(_, _, _, _, _)
for_each(step(_, _), state, text, lo, hi) ==
    IF lo > hi THEN state
    ELSE IF lo = hi THEN step(state, text[lo])
    ELSE with(for_each(step, state, text, lo, (lo + hi) \div 2),
              LAMBDA first_half : for_each(step, first_half, text, ((lo + hi) \div 2) + 1, hi))

\* text.chars(): one element per character, its first byte.
push_char(chars, byte) == IF byte \in ContinuationBytes THEN chars ELSE Append(chars, byte)

chars_of(text) == with(text, LAMBDA t : for_each(push_char, <<>>, t, 1, Len(t)))

starts_with_at(text, pattern, at) ==
    /\ at + Len(pattern) <= Len(text)
    /\ \A k \in 1..Len(pattern) : text[at + k] = pattern[k]

\* str::find(pattern): the byte index of the first occurrence.
find(text, pattern) ==
    with({at \in 0..Len(text) : starts_with_at(text, pattern, at)},
         LAMBDA hits : IF hits = {} THEN None ELSE Some(set_min(hits)))

contains(text, pattern) == find(text, pattern).some

\* str::trim on the ASCII texts that are trimmed here.
trim_text(text) == trim_end(trim_start(text))

\* The body of the loop of extract_string over rest.chars().enumerate();
\* `done` is its break.
closing_quote_step(loop, ch) ==
    IF loop.done THEN loop
    ELSE IF loop.escape_next THEN [loop EXCEPT !.escape_next = FALSE, !.i = @ + 1]
    ELSE IF ch = "\\" THEN [loop EXCEPT !.escape_next = TRUE, !.i = @ + 1]
    ELSE IF ch = "\"" THEN [loop EXCEPT !.end = loop.i, !.done = TRUE]
    ELSE [loop EXCEPT !.i = @ + 1]

\* The index of the first quote that no backslash precedes, 0 when there
\* is none.
closing_quote(chars) ==
    with(chars, LAMBDA cs :
        for_each(closing_quote_step,
                 [end |-> 0, escape_next |-> FALSE, i |-> 0, done |-> FALSE],
                 cs, 1, Len(cs)).end)

\* A mutation of extract_string: the end of the value is the last quote of
\* the text.
extract_string_to_last_quote(json, key) ==
    LET pattern == <<"\"">> \o key \o <<"\"", ":", "\"">>
    IN  with(find(json, pattern), LAMBDA found :
            IF ~found.some THEN None
            ELSE with(slice_from(json, found.v + Len(pattern)), LAMBDA rest :
                     LET quotes == {i \in 1..Len(rest) : rest[i] = "\""}
                     IN  Some(SubSeq(rest, 1, (CHOOSE i \in quotes : \A j \in quotes : j <= i) - 1))))

extract_string(json, key) ==
    LET pattern == <<"\"">> \o key \o <<"\"", ":", "\"">>
    IN  with(find(json, pattern), LAMBDA found :
            IF ~found.some THEN None
            ELSE with(slice_from(json, found.v + Len(pattern)), LAMBDA rest :
                     LET end == closing_quote(chars_of(rest))
                     IN  Some(slice_to(rest, end))))

AsciiDigits == {"0", "1", "2", "3", "4", "5", "6", "7", "8", "9"}

is_ascii_digit(byte) == byte \in AsciiDigits

digit_value(byte) ==
    CASE byte = "0" -> 0 [] byte = "1" -> 1 [] byte = "2" -> 2 [] byte = "3" -> 3
      [] byte = "4" -> 4 [] byte = "5" -> 5 [] byte = "6" -> 6 [] byte = "7" -> 7
      [] byte = "8" -> 8 [] byte = "9" -> 9

\* rest.find(|c| !accepted(c)).unwrap_or(rest.len()), `accepted` the set of
\* the bytes that the closure accepts.
first_rejected(rest, accepted) ==
    LET rejected == {i \in 1..Len(rest) : rest[i] \notin accepted}
    IN  IF rejected = {} THEN Len(rest) ELSE set_min(rejected) - 1

\* str::parse of a run of digits. The texts of the model have numbers of
\* at most nine digits, which every unsigned width holds.
RECURSIVE parse_digits(_, _)
parse_digits(digits, acc) ==
    IF digits = <<>> THEN acc
    ELSE parse_digits(Tail(digits), 10 * acc + digit_value(Head(digits)))

\* The text after `"key":`, without leading whitespace.
after_key(json, key) ==
    LET pattern == <<"\"">> \o key \o <<"\"", ":">>
    IN  with(find(json, pattern), LAMBDA found :
            IF ~found.some THEN None
            ELSE Some(trim_start(slice_from(json, found.v + Len(pattern)))))

extract_u32(json, key) ==
    with(after_key(json, key), LAMBDA rest :
        IF ~rest.some THEN None
        ELSE LET end == first_rejected(rest.v, AsciiDigits)
             IN  IF end = 0 \/ end > 9 THEN None
                 ELSE Some(parse_digits(SubSeq(rest.v, 1, end), 0)))

extract_u64(json, key) == extract_u32(json, key)

FloatBytes == AsciiDigits \cup {".", "-"}

\* str::parse::<f32> of a text of digits, dots and minus signs: the number
\* is kept as its text; a text without a digit, with two dots or with a
\* minus sign after the first byte is not a number.
parse_f32(text) ==
    IF /\ \E i \in 1..Len(text) : is_ascii_digit(text[i])
       /\ Cardinality({i \in 1..Len(text) : text[i] = "."}) <= 1
       /\ \A i \in 2..Len(text) : text[i] # "-"
    THEN Some(text) ELSE None

extract_f32(json, key) ==
    with(after_key(json, key), LAMBDA rest :
        IF ~rest.some THEN None
        ELSE LET end == first_rejected(rest.v, FloatBytes)
             IN  IF end = 0 THEN None ELSE parse_f32(SubSeq(rest.v, 1, end)))

\* The body of the brace loop of the extract_nested functions over
\* parent_content.chars().enumerate(); `done` is its break.
matching_brace_step(loop, ch) ==
    IF loop.done THEN loop
    ELSE IF ch = "{"
    THEN [loop EXCEPT !.brace_depth = @ + 1, !.started = TRUE, !.i = @ + 1]
    ELSE IF ch = "}"
    THEN IF loop.started /\ loop.brace_depth - 1 = 0
         THEN [loop EXCEPT !.brace_depth = @ - 1, !.end = loop.i + 1, !.done = TRUE]
         ELSE [loop EXCEPT !.brace_depth = @ - 1, !.i = @ + 1]
    ELSE [loop EXCEPT !.i = @ + 1]

\* One more than the index of the character that closes the first brace,
\* parent_content.len() when none does.
matching_brace(chars, byte_len) ==
    with(chars, LAMBDA cs :
        for_each(matching_brace_step,
                 [brace_depth |-> 0, started |-> FALSE, end |-> byte_len, i |-> 0, done |-> FALSE],
                 cs, 1, Len(cs)).end)

\* The text of the object that follows `"parent":{`, as the extract_nested
\* functions cut it out.
nested_object(json, parent) ==
    LET parent_pattern == <<"\"">> \o parent \o <<"\"", ":", "{">>
        alt_pattern == <<"\"">> \o parent \o <<"\"", " ", ":", " ", "{">>
    IN  with(find(json, parent_pattern), LAMBDA first_try :
        with(IF first_try.some THEN first_try ELSE find(json, alt_pattern), LAMBDA parent_start :
            IF ~parent_start.some THEN None
            ELSE with(slice_from(json, parent_start.v), LAMBDA parent_content :
                     LET end == matching_brace(chars_of(parent_content), Len(parent_content))
                     IN  Some(slice_to(parent_content, end)))))

\* The extract_nested functions: the typed extractor on the nested text.
\* When cutting out the nested text panicked there is nothing to extract.
extract_nested_string(json, parent, key) ==
    with(nested_object(json, parent), LAMBDA nested :
        IF ~nested.some \/ nested = Some(Panicked) THEN None
        ELSE extract_string(nested.v, key))

extract_nested_u32(json, parent, key) ==
    with(nested_object(json, parent), LAMBDA nested :
        IF ~nested.some \/ nested = Some(Panicked) THEN None
        ELSE extract_u32(nested.v, key))

extract_nested_u64(json, parent, key) ==
    with(nested_object(json, parent), LAMBDA nested :
        IF ~nested.some \/ nested = Some(Panicked) THEN None
        ELSE extract_u64(nested.v, key))

extract_nested_f32(json, parent, key) ==
    with(nested_object(json, parent), LAMBDA nested :
        IF ~nested.some \/ nested = Some(Panicked) THEN None
        ELSE extract_f32(nested.v, key))

\* objects.push(current.trim().to_string()) unless the text is blank.
push_object(objects, current) ==
    IF trim_text(current) # <<>> THEN Append(objects, trim_text(current)) ELSE objects

\* The body of the loop of split_json_objects.
split_step(loop, ch) ==
    IF loop.escape_next
    THEN [loop EXCEPT !.current = Append(@, ch), !.escape_next = FALSE]
    ELSE IF ch = "\\" /\ loop.in_string
    THEN [loop EXCEPT !.current = Append(@, ch), !.escape_next = TRUE]
    ELSE LET in_string == IF ch = "\"" THEN ~loop.in_string ELSE loop.in_string
         IN  IF ~in_string /\ ch = "," /\ loop.brace_depth = 0
             THEN [loop EXCEPT !.objects = push_object(@, loop.current),
                               !.current = <<>>, !.in_string = in_string]
             ELSE [loop EXCEPT
                      !.current = Append(@, ch),
                      !.in_string = in_string,
                      !.brace_depth = IF in_string THEN @
                                      ELSE IF ch = "{" THEN @ + 1
                                      ELSE IF ch = "}" THEN @ - 1
                                      ELSE @]

\* split_json_objects: the top-level elements of the array, trimmed.
split_json_objects(json) ==
    with(json, LAMBDA text :
        with(for_each(split_step,
                      [objects |-> <<>>, current |-> <<>>, brace_depth |-> 0,
                       in_string |-> FALSE, escape_next |-> FALSE],
                      text, 1, Len(text)),
             LAMBDA loop : push_object(loop.objects, loop.current)))

\* SystemTime::now() in milliseconds, when the list is read.
SystemTimeNowMs == 100000

unwrap_or(option, default) == IF option.some THEN option.v ELSE default

\* parse_pm2_object: None without a pm_id, Some(process) otherwise, unless
\* one of the slices taken on the way panics.
parse_pm2_object(json) ==
    LET pm_id == extract_u32(json, KEY_pm_id)
        name == unwrap_or(extract_string(json, KEY_name), TEXT_unknown)
        pid == extract_u32(json, KEY_pid)
        nested_status == extract_nested_string(json, KEY_pm2_env, KEY_status)
        status == IF nested_status.some THEN nested_status.v
                  ELSE unwrap_or(extract_string(json, KEY_status), TEXT_unknown)
        exec_mode == extract_nested_string(json, KEY_pm2_env, KEY_exec_mode)
        mode == IF exec_mode.some /\ contains(exec_mode.v, TEXT_cluster)
                THEN TEXT_cluster ELSE TEXT_fork
        restart_time == extract_nested_u32(json, KEY_pm2_env, KEY_restart_time)
        pm_uptime == extract_nested_u64(json, KEY_pm2_env, KEY_pm_uptime)
        uptime_ms == IF pm_uptime.some /\ SystemTimeNowMs > pm_uptime.v
                     THEN Some(SystemTimeNowMs - pm_uptime.v) ELSE None
        memory_bytes == extract_nested_u64(json, KEY_monit, KEY_memory)
        cpu == extract_nested_f32(json, KEY_monit, KEY_cpu)
        script == extract_nested_string(json, KEY_pm2_env, KEY_pm_exec_path)
        panics == \/ name = Panicked
                  \/ status = Panicked
                  \/ exec_mode = Some(Panicked)
                  \/ script = Some(Panicked)
                  \/ nested_object(json, KEY_pm2_env) = Some(Panicked)
                  \/ nested_object(json, KEY_monit) = Some(Panicked)
    IN  IF ~pm_id.some THEN [kind |-> "None"]
        ELSE IF panics THEN [kind |-> "Panic"]
        ELSE [kind |-> "Some",
              v |-> [pm_id |-> pm_id.v, name |-> name, mode |-> mode, status |-> status,
                     pid |-> pid, cpu |-> cpu, memory_bytes |-> memory_bytes,
                     restarts |-> unwrap_or(restart_time, 0), uptime_ms |-> uptime_ms,
                     script |-> script]]

\* The loop of parse_pm2_json over the objects: the Some results, in order.
RECURSIVE present(_)
present(parsed) ==
    IF parsed = <<>> THEN <<>>
    ELSE (IF Head(parsed).kind = "Some" THEN <<Head(parsed).v>> ELSE <<>>) \o present(Tail(parsed))

\* parse_pm2_json: Ok(processes), Err(ParseError), or a panic of the thread.
parse_pm2_json(json_str) ==
    with(trim_text(json_str), LAMBDA trimmed :
        IF trimmed = <<"[", "]">> THEN [kind |-> "Ok", processes |-> <<>>]
        ELSE IF Len(trimmed) < 2 \/ trimmed[1] # "[" \/ trimmed[Len(trimmed)] # "]"
        THEN [kind |-> "Err", processes |-> <<>>]
        ELSE IF trim_text(SubSeq(trimmed, 2, Len(trimmed) - 1)) = <<>>
        THEN [kind |-> "Ok", processes |-> <<>>]
        ELSE with(split_json_objects(SubSeq(trimmed, 2, Len(trimmed) - 1)), LAMBDA objects :
                 with([i \in 1..Len(objects) |-> parse_pm2_object(objects[i])], LAMBDA parsed :
                     IF \E i \in 1..Len(parsed) : parsed[i].kind = "Panic"
                     THEN [kind |-> "Panic", processes |-> <<>>]
                     ELSE [kind |-> "Ok", processes |-> present(parsed)])))

\* ---- the texts that pm2 jlist prints ----
\* The process names that occur: plain ASCII, one with a brace and a comma
\* in it, and two names with the two-byte character U+00E9.
NAME_braces == <<"a", "}", ",", "{", "b">>

AsciiNames == {NAME_api, NAME_web_1, NAME_braces}

Pm2Names == AsciiNames \cup {NAME_cafe, NAME_ea}

Pm2ExecModes == {TEXT_cluster_mode, TEXT_fork_mode}

\* The elements that occur; `numbered` is FALSE for an element whose pm_id
\* is null.
Pm2Sources ==
    {[pm_id |-> 0, numbered |-> TRUE, name |-> name, pid |-> 55, status |-> TEXT_online,
      exec_mode |-> exec_mode, restart_time |-> 3, cpu |-> TEXT_1_5, memory |-> 2048] :
        name \in Pm2Names, exec_mode \in Pm2ExecModes}
    \cup {[pm_id |-> 0, numbered |-> FALSE, name |-> NAME_api, pid |-> 55, status |-> TEXT_online,
            exec_mode |-> TEXT_cluster_mode, restart_time |-> 3, cpu |-> TEXT_1_5,
            memory |-> 2048]}

RECURSIVE digits_of(_)
digits_of(n) ==
    LET digit == <<"0", "1", "2", "3", "4", "5", "6", "7", "8", "9">>[(n % 10) + 1]
    IN  IF n < 10 THEN <<digit>> ELSE Append(digits_of(n \div 10), digit)

\* One element of the list as JSON.stringify writes it: no whitespace, and
\* characters outside ASCII as they are.
render_object(src) ==
    FRAG_pm_id \o (IF src.numbered THEN digits_of(src.pm_id) ELSE TEXT_null) \o FRAG_name \o src.name \o FRAG_pid \o digits_of(src.pid)
    \o FRAG_status \o src.status \o FRAG_exec_mode \o src.exec_mode
    \o FRAG_restart_time \o digits_of(src.restart_time)
    \o FRAG_cpu \o src.cpu \o FRAG_memory \o digits_of(src.memory) \o FRAG_end

RECURSIVE render_objects(_)
render_objects(sources) ==
    IF sources = <<>> THEN <<>>
    ELSE render_object(Head(sources))
         \o (IF Len(sources) > 1 THEN <<",">> ELSE <<>>) \o render_objects(Tail(sources))

render_list(sources) == <<"[">> \o render_objects(sources) \o <<"]">>

\* The lists of at most `longest` elements; PM2 numbers the elements of
\* its list.
Pm2SourceLists(longest) ==
    UNION {{[i \in 1..n |-> [elements[i] EXCEPT !.pm_id = i - 1]] :
               elements \in [1..n -> Pm2Sources]} : n \in 0..longest}

Pm2ParseInit ==
    /\ jlist_source \in Pm2SourceLists(MaxObjects)
    /\ jlist_text = render_list(jlist_source)
    /\ jlist_parsed = None

Pm2ParseIdle ==
    /\ jlist_source = <<>>
    /\ jlist_text = <<>>
    /\ jlist_parsed = None

\* load_pm2_processes hands the output of pm2 jlist to parse_pm2_json.
ParsePm2Json ==
    /\ ~jlist_parsed.some
    /\ jlist_parsed' = Some(parse_pm2_json(jlist_text))
    /\ UNCHANGED <<jlist_source, jlist_text>>
    /\ UNCHANGED notPm2ParseVars

(***************************************************************************)
(* parse_activity_time (system/docker/stats.rs)                            *)
(***************************************************************************)
WORD_created == <<"c", "r", "e", "a", "t", "e", "d">>

WORD_up == <<"u", "p">>

WORD_ago == <<"a", "g", "o">>

WORD_about == <<"a", "b", "o", "u", "t">>

WORD_a == <<"a", " ">>

WORD_an == <<"a", "n", " ">>

WORD_second == <<"s", "e", "c", "o", "n", "d">>

WORD_minute == <<"m", "i", "n", "u", "t", "e">>

WORD_hour == <<"h", "o", "u", "r">>

WORD_day == <<"d", "a", "y">>

WORD_week == <<"w", "e", "e", "k">>

WORD_month == <<"m", "o", "n", "t", "h">>

WORD_year == <<"y", "e", "a", "r">>

STATUS_Created == <<"C", "r", "e", "a", "t", "e", "d">>

STATUS_about_an_hour == <<"U", "p", " ", "A", "b", "o", "u", "t", " ", "a", "n", " ", "h", "o", "u", "r">>

STATUS_about_a_minute == <<"U", "p", " ", "A", "b", "o", "u", "t", " ", "a", " ", "m", "i", "n", "u", "t", "e">>

STATUS_exited_about_an_hour == <<"E", "x", "i", "t", "e", "d", " ", "(", "1", ")", " ", "A", "b", "o", "u", "t", " ", "a", "n", " ", "h", "o", "u", "r", " ", "a", "g", "o">>

STATUS_less_than_a_second == <<"U", "p", " ", "L", "e", "s", "s", " ", "t", "h", "a", "n", " ", "a", " ", "s", "e", "c", "o", "n", "d">>

STATUS_dead == <<"D", "e", "a", "d">>

STATUS_exited_3_days == <<"E", "x", "i", "t", "e", "d", " ", "(", "0", ")", " ", "3", " ", "d", "a", "y", "s", " ", "a", "g", "o">>

PREFIX_Up == <<"U", "p", " ">>

PREFIX_Exited_0 == <<"E", "x", "i", "t", "e", "d", " ", "(", "0", ")", " ">>

PREFIX_Exited_137 == <<"E", "x", "i", "t", "e", "d", " ", "(", "1", "3", "7", ")", " ">>

SUFFIX_ago == <<" ", "a", "g", "o">>

SUFFIX_healthy == <<" ", "(", "h", "e", "a", "l", "t", "h", "y", ")">>

UNIT_seconds == <<"s", "e", "c", "o", "n", "d", "s">>

UNIT_minutes == <<"m", "i", "n", "u", "t", "e", "s">>

UNIT_hours == <<"h", "o", "u", "r", "s">>

UNIT_days == <<"d", "a", "y", "s">>

UNIT_weeks == <<"w", "e", "e", "k", "s">>

UNIT_months == <<"m", "o", "n", "t", "h", "s">>

UNIT_years == <<"y", "e", "a", "r", "s">>

UNIT_second == <<"s", "e", "c", "o", "n", "d">>

\* u64::MAX. The integers of the checker end at 2^31 - 1, so the model's
\* u64 has 31 bits; the arithmetic below never leaves them.
U64_MAX == 2147483647

\* u64::saturating_mul
saturating_mul(a, b) == IF b # 0 /\ a > U64_MAX \div b THEN U64_MAX ELSE a * b

\* str::to_lowercase on the letters that the statuses have in upper case.
to_lowercase_char(ch) ==
    CASE ch = "U" -> "u"
      [] ch = "E" -> "e"
      [] ch = "C" -> "c"
      [] ch = "A" -> "a"
      [] ch = "L" -> "l"
      [] ch = "D" -> "d"
      [] OTHER -> ch

to_lowercase(text) == [i \in 1..Len(text) |-> to_lowercase_char(text[i])]

starts_with(text, prefix) == starts_with_at(text, prefix, 0)

ends_with(text, suffix) ==
    Len(suffix) <= Len(text) /\ starts_with_at(text, suffix, Len(text) - Len(suffix))

\* str::trim_start_matches(pattern): the pattern is removed as often as the
\* text starts with it.
RECURSIVE trim_start_matches(_, _)
trim_start_matches(text, pattern) ==
    IF starts_with(text, pattern)
    THEN trim_start_matches(SubSeq(text, Len(pattern) + 1, Len(text)), pattern)
    ELSE text

RECURSIVE trim_end_matches(_, _)
trim_end_matches(text, pattern) ==
    IF ends_with(text, pattern)
    THEN trim_end_matches(SubSeq(text, 1, Len(text) - Len(pattern)), pattern)
    ELSE text

\* str::split_whitespace: the words of the text.
RECURSIVE split_whitespace(_)
split_whitespace(text) ==
    LET rest == trim_start(text)
        word_len == first_rejected(rest, {rest[i] : i \in 1..Len(rest)} \ {" "})
    IN  IF rest = <<>> THEN <<>>
        ELSE <<SubSeq(rest, 1, word_len)>>
             \o split_whitespace(SubSeq(rest, word_len + 1, Len(rest)))

\* str::parse::<u64>: Some(n) for a run of digits whose value fits.
RECURSIVE parse_u64_from(_, _)
parse_u64_from(digits, acc) ==
    IF digits = <<>> THEN Some(acc)
    ELSE IF Head(digits) \notin AsciiDigits THEN None
    ELSE IF acc > (U64_MAX - digit_value(Head(digits))) \div 10 THEN None
    ELSE parse_u64_from(Tail(digits), 10 * acc + digit_value(Head(digits)))

parse_u64(word) == IF word = <<>> THEN None ELSE parse_u64_from(word, 0)

\* A mutation of unit_multiplier: a week counts as a day.
unit_multiplier_short_week(unit, otherwise) ==
    CASE starts_with(unit, WORD_second) -> 1
      [] starts_with(unit, WORD_minute) -> 60
      [] starts_with(unit, WORD_hour) -> 3600
      [] starts_with(unit, WORD_day) -> 86400
      [] starts_with(unit, WORD_week) -> 86400
      [] starts_with(unit, WORD_month) -> 2592000
      [] starts_with(unit, WORD_year) -> 31536000
      [] OTHER -> otherwise

\* The match on the unit in parse_duration_string; `otherwise` is its
\* last arm.
unit_multiplier(unit, otherwise) ==
    CASE starts_with(unit, WORD_second) -> 1
      [] starts_with(unit, WORD_minute) -> 60
      [] starts_with(unit, WORD_hour) -> 3600
      [] starts_with(unit, WORD_day) -> 86400
      [] starts_with(unit, WORD_week) -> 604800
      [] starts_with(unit, WORD_month) -> 2592000
      [] starts_with(unit, WORD_year) -> 31536000
      [] OTHER -> otherwise

parse_duration_string(input) ==
    LET lowered == to_lowercase(trim(input))
        text == trim(trim_start_matches(lowered, WORD_about))
        parts == split_whitespace(text)
        number == IF parts # <<>> /\ parse_u64(parts[1]).some THEN parse_u64(parts[1]).v ELSE 1
        unit == IF Len(parts) >= 2 THEN parts[2] ELSE <<>>
    IN  IF starts_with(text, WORD_a) \/ starts_with(text, WORD_an)
        THEN unit_multiplier(trim(trim_start_matches(trim_start_matches(text, WORD_a), WORD_an)),
                             U64_MAX \div 2)
        ELSE saturating_mul(number, unit_multiplier(unit, 1))

\* A mutation of parse_activity_time: "Created" is read as a duration.
parse_activity_time_no_sentinel(status) ==
    parse_duration_string(trim(trim_start_matches(to_lowercase(status), WORD_up)))

parse_activity_time(status) ==
    LET status_lower == to_lowercase(status)
        paren == find(status_lower, <<")">>)
    IN  IF starts_with(status_lower, WORD_created) THEN U64_MAX \div 2
        ELSE IF starts_with(status_lower, WORD_up)
        THEN parse_duration_string(trim(trim_start_matches(status_lower, WORD_up)))
        ELSE IF paren.some
        THEN parse_duration_string(
                 trim(trim_end_matches(
                     trim(SubSeq(status_lower, paren.v + 2, Len(status_lower))), WORD_ago)))
        ELSE parse_duration_string(status_lower)

\* ---- the statuses that the engine prints ----
\* The units of a status, each with the number of seconds in it.
StatusUnits ==
    { [word |-> UNIT_second, secs |-> 1], [word |-> UNIT_seconds, secs |-> 1],
      [word |-> UNIT_minutes, secs |-> 60], [word |-> UNIT_hours, secs |-> 3600],
      [word |-> UNIT_days, secs |-> 86400], [word |-> UNIT_weeks, secs |-> 604800],
      [word |-> UNIT_months, secs |-> 2592000], [word |-> UNIT_years, secs |-> 31536000] }

\* The counts of a status; 99999999999 is beyond the model's u64 as
\* 2^64 is beyond the program's.
StatusCounts ==
    { [digits |-> <<"0">>, n |-> 0, fits |-> TRUE],
      [digits |-> <<"1">>, n |-> 1, fits |-> TRUE],
      [digits |-> <<"3">>, n |-> 3, fits |-> TRUE],
      [digits |-> <<"4", "5">>, n |-> 45, fits |-> TRUE],
      [digits |-> <<"3", "5">>, n |-> 35, fits |-> TRUE],
      [digits |-> <<"6", "9">>, n |-> 69, fits |-> TRUE],
      [digits |-> <<"9", "9", "9", "9", "9", "9", "9", "9", "9", "9", "9">>, n |-> 0, fits |-> FALSE] }

StatusForms == {"Up", "UpHealthy", "Exited0", "Exited137"}

\* "Up N unit", "Up N unit (healthy)", "Exited (code) N unit ago".
render_status(form, count, unit) ==
    CASE form = "Up" -> PREFIX_Up \o count.digits \o <<" ">> \o unit.word
      [] form = "UpHealthy" -> PREFIX_Up \o count.digits \o <<" ">> \o unit.word \o SUFFIX_healthy
      [] form = "Exited0" -> PREFIX_Exited_0 \o count.digits \o <<" ">> \o unit.word \o SUFFIX_ago
      [] form = "Exited137" -> PREFIX_Exited_137 \o count.digits \o <<" ">> \o unit.word \o SUFFIX_ago

CountedStatuses ==
    {[form |-> form, count |-> count, unit |-> unit, text |-> render_status(form, count, unit)] :
        form \in StatusForms, count \in StatusCounts, unit \in StatusUnits}

UncountedStatuses ==
    {[form |-> "Uncounted", count |-> [digits |-> <<>>, n |-> 0, fits |-> TRUE],
      unit |-> [word |-> <<>>, secs |-> 1], text |-> text] :
        text \in {STATUS_Created, STATUS_about_an_hour, STATUS_about_a_minute,
                  STATUS_exited_about_an_hour, STATUS_less_than_a_second, STATUS_dead}}

ActivityInit ==
    /\ status_source \in CountedStatuses \cup UncountedStatuses
    /\ recency = None

ActivityIdle ==
    /\ status_source = <<>>
    /\ recency = None

\* parse_docker_ps_line computes the recency of a container from its status.
ParseActivityTime ==
    /\ ~recency.some
    /\ recency' = Some(parse_activity_time(status_source.text))
    /\ UNCHANGED status_source
    /\ UNCHANGED notActivityVars

(***************************************************************************)
(* Views, selection and the environment view                               *)
(***************************************************************************)
MaxPortRows == 4

MaxOtherRows == 1

\* The rows of visible_ports / visible_ports_container_ids: a group header
\* (pid 0, no container), a port of a process, a port of a container.
GROUP_ROW == [pid |-> 0, container |-> FALSE]
PROCESS_PORT == [pid |-> 7, container |-> FALSE]
CONTAINER_PORT == [pid |-> 0, container |-> TRUE]

\* What group_ports yields: every group header is followed by its items.
\* The lists here hold ports of processes only or of containers only.
PortRowLists(longest) ==
    UNION { { rows \in [1..n -> {GROUP_ROW, item}] :
                /\ n > 0 => rows[1] = GROUP_ROW /\ rows[n] # GROUP_ROW
                /\ \A i \in 1..(n - 1) :
                      rows[i] = GROUP_ROW => rows[i + 1] # GROUP_ROW } :
            n \in 0..longest, item \in {PROCESS_PORT, CONTAINER_PORT} }

NavViews == {"Process", "Ports", "Docker", "Node"}

saturating_sub(a, b) == IF a >= b THEN a - b ELSE 0

\* A mutation of is_ports_group_row: no row counts as a group header.
is_ports_group_row_never(rows, index) == FALSE

\* AppState::is_ports_group_row
is_ports_group_row(rows, index) ==
    /\ index + 1 \in DOMAIN rows
    /\ rows[index + 1].pid = 0
    /\ ~rows[index + 1].container

\* clamp_selection
clamp_selection(selected, list_len) ==
    IF list_len = 0 THEN 0
    ELSE IF selected >= list_len THEN list_len - 1
    ELSE selected

\* find_next_ports_row: None, or the next row in `direction` that is not a
\* group header.
RECURSIVE find_next_ports_row(_, _, _)
find_next_ports_row(rows, start, direction) ==
    LET idx == start + direction
    IN  IF idx < 0 \/ idx >= Len(rows) THEN None
        ELSE IF ~is_ports_group_row(rows, idx) THEN Some(idx)
        ELSE find_next_ports_row(rows, idx, direction)

\* clamp_ports_selection
clamp_ports_selection(rows, selected) ==
    IF Len(rows) = 0 THEN 0
    ELSE LET clamped == IF selected >= Len(rows) THEN Len(rows) - 1 ELSE selected
         IN  IF ~is_ports_group_row(rows, clamped) THEN clamped
             ELSE IF find_next_ports_row(rows, clamped, 1).some
                  THEN find_next_ports_row(rows, clamped, 1).v
             ELSE IF find_next_ports_row(rows, clamped, -1).some
                  THEN find_next_ports_row(rows, clamped, -1).v
             ELSE clamped

\* move_ports_selection: whether it moved, and the selection after it.
move_ports_selection(rows, selected, direction) ==
    IF direction = 0 \/ Len(rows) = 0 THEN [moved |-> FALSE, selected |-> selected]
    ELSE LET next == find_next_ports_row(rows, selected, direction)
         IN  IF next.some THEN [moved |-> TRUE, selected |-> next.v]
             ELSE [moved |-> FALSE, selected |-> selected]

\* for _ in 0..10 { if !move_ports_selection(state, direction) { break; } }
PAGE_MOVES == 10

RECURSIVE page_ports_selection(_, _, _, _)
page_ports_selection(rows, selected, direction, times) ==
    IF times = 0 THEN selected
    ELSE LET step == move_ports_selection(rows, selected, direction)
         IN  IF ~step.moved THEN selected
             ELSE page_ports_selection(rows, step.selected, direction, times - 1)

sidebar_index_for_view(view) ==
    CASE view = "Process" -> 0
      [] view = "Ports" -> 1
      [] view \in {"Docker", "DockerEnv"} -> 2
      [] OTHER -> 3

view_for_sidebar_index(index) ==
    CASE index = 1 -> "Ports"
      [] index = 2 -> "Docker"
      [] index = 3 -> "Node"
      [] OTHER -> "Process"

\* AppState::set_view
set_view(st, view) ==
    [st EXCEPT !.view_mode = view, !.selected = 0,
               !.sidebar_index = sidebar_index_for_view(view)]

\* enter_env_view
enter_env_view(st, return_view) ==
    [st EXCEPT !.input_mode = "Normal", !.env_return_view = return_view,
               !.view_mode = "DockerEnv"]

\* open_process_env_for_pid: system.process(pid) finds the process or not.
open_process_env_for_pid(st, found, return_view) ==
    IF found THEN enter_env_view(st, return_view) ELSE st

\* open_selected_env, with the length of the active list of the other views.
open_selected_env(st, list_len, found) ==
    CASE st.view_mode = "Docker" ->
            IF st.selected < list_len THEN enter_env_view(st, "Docker") ELSE st
      [] st.view_mode \in {"Process", "Node"} ->
            IF st.selected < list_len
            THEN open_process_env_for_pid(st, found, st.view_mode) ELSE st
      [] st.view_mode = "Ports" ->
            IF st.selected >= Len(st.visible_ports) THEN st
            ELSE IF st.visible_ports[st.selected + 1].pid = 0
                 THEN IF st.visible_ports[st.selected + 1].container
                      THEN enter_env_view(st, "Ports") ELSE st
            ELSE open_process_env_for_pid(st, found, "Ports")
      [] OTHER -> st

\* handle_env_mode: Esc leaves the view; the other keys move env_selected.
handle_env_mode(st, key) ==
    IF key = "Esc"
    THEN [st EXCEPT !.view_mode = st.env_return_view, !.input_mode = "Normal"]
    ELSE st

\* handle_filter_mode
handle_filter_mode(st, key) ==
    IF key \in {"Esc", "Enter"} THEN [st EXCEPT !.input_mode = "Normal"] ELSE st

toggle_view(st, view, back) ==
    [set_view(st, IF st.view_mode = view THEN back ELSE view) EXCEPT !.focus = "Main"]

\* The Up, Down, PageUp and PageDown arms of handle_normal_mode.
move_selection(st, key, list_len) ==
    LET direction == IF key \in {"Up", "PageUp"} THEN -1 ELSE 1
        times == IF key \in {"Up", "Down"} THEN 1 ELSE PAGE_MOVES
    IN  CASE st.view_mode = "Ports" ->
                [st EXCEPT !.selected =
                    page_ports_selection(st.visible_ports, st.selected, direction, times)]
          [] st.view_mode = "Process" ->
                [st EXCEPT !.selected =
                    CASE key = "Up" -> IF st.selected > 0 THEN st.selected - 1
                                       ELSE st.selected
                      [] key = "Down" -> IF st.selected + 1 < list_len
                                         THEN st.selected + 1 ELSE st.selected
                      [] key = "PageUp" -> saturating_sub(st.selected, 10)
                      [] OTHER -> IF st.selected + 10 <= saturating_sub(list_len, 1)
                                  THEN st.selected + 10
                                  ELSE saturating_sub(list_len, 1)]
          [] OTHER -> st

\* handle_normal_mode
handle_normal_mode(st, key, list_len, found) ==
    IF key = "Left"
    THEN [st EXCEPT !.focus = IF st.focus = "Sidebar" THEN "Main" ELSE "Sidebar"]
    ELSE IF st.focus = "Sidebar" /\ key \in {"Up", "Down", "Enter"}
    THEN CASE key = "Up" ->
                 LET index == IF st.sidebar_index > 0 THEN st.sidebar_index - 1
                              ELSE st.sidebar_index
                 IN  set_view(st, view_for_sidebar_index(index))
           [] key = "Down" ->
                 LET index == IF st.sidebar_index < 3 THEN st.sidebar_index + 1
                              ELSE st.sidebar_index
                 IN  set_view(st, view_for_sidebar_index(index))
           [] OTHER ->
                 [set_view(st, view_for_sidebar_index(st.sidebar_index))
                     EXCEPT !.focus = "Main"]
    ELSE CASE key = "/" -> [st EXCEPT !.input_mode = "Filter"]
           [] key = "d" ->
                 [set_view(st, IF st.view_mode = "Docker" THEN "Process" ELSE "Docker")
                     EXCEPT !.focus = "Main"]
           [] key = "p" -> toggle_view(st, "Ports", "Process")
           [] key = "j" -> toggle_view(st, "Node", "Process")
           [] key = "e" -> open_selected_env(st, list_len, found)
           [] key \in {"Up", "Down", "PageUp", "PageDown"} -> move_selection(st, key, list_len)
           [] OTHER -> st

\* handle_key_event
handle_key_event(st, key, list_len, found) ==
    IF st.context_menu.some /\ key = "Esc" THEN [st EXCEPT !.context_menu = None]
    ELSE IF st.view_mode = "DockerEnv" THEN handle_env_mode(st, key)
    ELSE IF st.input_mode = "Normal" THEN handle_normal_mode(st, key, list_len, found)
    ELSE handle_filter_mode(st, key)

\* The centred scroll offset the click handlers compute.
scroll_offset(selected, total, max_rows) ==
    LET half == max_rows \div 2
    IN  IF selected <= half THEN 0
        ELSE IF selected + half >= total THEN saturating_sub(total, max_rows)
        ELSE selected - half

\* handle_main_click in the Ports view.
handle_main_click(st, clicked_visual_row, max_rows) ==
    IF st.input_mode = "Filter" \/ max_rows = 0 \/ st.view_mode # "Ports" THEN st
    ELSE LET total == Len(st.visible_ports)
             target_row == scroll_offset(st.selected, total, max_rows) + clicked_visual_row
         IN  IF target_row < total /\ ~is_ports_group_row(st.visible_ports, target_row)
             THEN [st EXCEPT !.selected = target_row]
             ELSE st

\* handle_scroll in the Ports view.
handle_scroll(st, direction) ==
    IF st.input_mode = "Filter" \/ st.view_mode # "Ports" THEN st
    ELSE [st EXCEPT !.selected =
             move_ports_selection(st.visible_ports, st.selected, direction).selected]

process_menu == [kind |-> "Process", items |-> {"Kill", "Env"}]
container_menu == [kind |-> "Container", items |-> {"Logs", "Env", "Start"}]

\* handle_process_right_click, handle_ports_right_click and
\* handle_docker_right_click on a container row.
handle_right_click(st, clicked_visual_row, max_rows, list_len) ==
    IF max_rows = 0 THEN st
    ELSE CASE st.view_mode = "Process" ->
                 IF list_len = 0
                    \/ scroll_offset(st.selected, list_len, max_rows) + clicked_visual_row
                          >= list_len
                 THEN st
                 ELSE [st EXCEPT !.context_menu = Some(process_menu)]
           [] st.view_mode = "Ports" ->
                 LET total == Len(st.visible_ports)
                     target_row == scroll_offset(st.selected, total, max_rows)
                                      + clicked_visual_row
                 IN  IF total = 0 \/ target_row >= total
                        \/ is_ports_group_row(st.visible_ports, target_row)
                        \/ st.visible_ports[target_row + 1].container
                     THEN st
                     ELSE [st EXCEPT !.context_menu = Some(process_menu)]
           [] st.view_mode = "Docker" ->
                 IF scroll_offset(st.selected, list_len, max_rows) + clicked_visual_row
                       >= list_len
                 THEN st
                 ELSE [st EXCEPT !.context_menu = Some(container_menu)]
           [] OTHER -> st

\* execute_context_action for Env: the environment is read or it is not.
execute_context_action_env(st, target, readable) ==
    IF ~readable THEN st
    ELSE IF target.kind = "Process"
    THEN [st EXCEPT !.env_return_view = "Process", !.view_mode = "DockerEnv"]
    ELSE [st EXCEPT !.env_return_view = "Docker", !.view_mode = "DockerEnv"]

NavKeys == {"Left", "Up", "Down", "PageUp", "PageDown", "Enter", "/", "d", "p", "j",
            "e", "Esc", "x"}

ScreenRows == {0, 2, 8}

\* The list section of run(): the rows of the active view are rebuilt when
\* its dirty flag is set, and the selection is clamped to them.
refresh_view(st, rebuild, rows, list_len) ==
    IF ~rebuild \/ st.view_mode = "DockerEnv" THEN st
    ELSE IF st.view_mode = "Ports"
    THEN [st EXCEPT !.visible_ports = rows,
                    !.selected = clamp_ports_selection(rows,
                                     clamp_selection(st.selected, Len(rows)))]
    ELSE [st EXCEPT !.visible_ports = <<>>,
                    !.selected = clamp_selection(st.selected, list_len)]

NavInit ==
    /\ app_state = [view_mode |-> "Process", focus |-> "Main", sidebar_index |-> 0,
                    selected |-> 0, visible_ports |-> <<>>, input_mode |-> "Normal",
                    env_return_view |-> "Process", context_menu |-> None]
    /\ other_len = 0
    /\ ports_dirty = TRUE
    /\ last_step = "other"
    /\ env_opened_from = [view |-> "", by |-> ""]

NavIdle ==
    /\ app_state = <<>>
    /\ other_len = 0
    /\ ports_dirty = FALSE
    /\ last_step = ""
    /\ env_opened_from = <<>>

\* The events after which the selection of the Ports view is looked at.
selection_steps == {"Up", "Down", "PageUp", "PageDown", "scroll", "click"}

step_name(event) == IF event \in selection_steps THEN event ELSE "other"

not_opened == [view |-> "", by |-> ""]

\* What one loop iteration leaves after the event handler returned `handled`
\* and the dirty flags were raised by `raise`.
finish_iteration(handled, raise, step) ==
    LET rebuild == ports_dirty \/ raise
        rebuilt == rebuild /\ handled.view_mode # "DockerEnv"
    IN  /\ \E rows \in IF rebuilt /\ handled.view_mode = "Ports"
                        THEN PortRowLists(MaxPortRows) ELSE {<<>>},
              list_len \in IF rebuilt /\ handled.view_mode # "Ports"
                            THEN 0..MaxOtherRows ELSE {0} :
              /\ app_state' = refresh_view(handled, rebuild, rows, list_len)
              /\ other_len' = IF rebuilt THEN list_len ELSE other_len
        /\ ports_dirty' = (rebuild /\ handled.view_mode # "Ports")
        /\ last_step' = IF rebuilt /\ handled.view_mode = "Ports" THEN "refresh"
                        ELSE step_name(step)
        /\ env_opened_from' =
               IF handled.view_mode # "DockerEnv" THEN not_opened
               ELSE IF app_state.view_mode # "DockerEnv"
               THEN [view |-> app_state.view_mode, by |-> "key"]
               ELSE env_opened_from

\* A loop iteration of run() that reads a key: handle_key_event, the dirty
\* flags, and the list section.  A changed filter or view raises the flag.
KeyEvent ==
    /\ app_state # <<>>
    /\ \E key \in NavKeys, found \in BOOLEAN :
        LET handled == handle_key_event(app_state, key, other_len, found)
            filter_changed == app_state.input_mode = "Filter" /\ key = "x"
                                 /\ app_state.view_mode # "DockerEnv"
                                 /\ ~app_state.context_menu.some
            view_changed == handled.view_mode # app_state.view_mode
        IN  /\ key # "e" => found
            /\ finish_iteration(handled, filter_changed \/ view_changed, key)
    /\ UNCHANGED notNavVars

\* A loop iteration in which the tick elapsed: the active view is dirty.
TickEvent ==
    /\ app_state # <<>>
    /\ finish_iteration(app_state, app_state.view_mode \in {"Ports", "Process", "Node"},
                        "other")
    /\ UNCHANGED notNavVars

\* handle_mouse_event: a wheel step, a left click or a right click in the
\* list, with no menu open.
MouseEvent ==
    /\ app_state # <<>>
    /\ ~app_state.context_menu.some
    /\ \/ \E direction \in {-1, 1} :
              /\ app_state' = handle_scroll(app_state, direction)
              /\ last_step' = "scroll"
       \/ \E clicked_visual_row \in 0..(MaxPortRows - 1), max_rows \in ScreenRows :
              \/ /\ app_state' = handle_main_click(app_state, clicked_visual_row, max_rows)
                 /\ last_step' = "click"
              \/ /\ app_state' = handle_right_click(app_state, clicked_visual_row,
                                                    max_rows, other_len)
                 /\ last_step' = "other"
    /\ UNCHANGED <<other_len, ports_dirty, env_opened_from>>
    /\ UNCHANGED notNavVars

\* handle_mouse_event with a menu open: a left click on an item runs
\* execute_context_action, any other click closes the menu.
MenuClick ==
    /\ app_state # <<>>
    /\ app_state.context_menu.some
    /\ \E item \in app_state.context_menu.v.items \cup {"outside"}, readable \in BOOLEAN :
        LET closed == [app_state EXCEPT !.context_menu = None]
        IN  /\ app_state' = IF item = "Env"
                            THEN execute_context_action_env(
                                     closed, app_state.context_menu.v, readable)
                            ELSE closed
            /\ env_opened_from' =
                   IF item = "Env" /\ readable
                   THEN [view |-> app_state.view_mode, by |-> "menu"]
                   ELSE env_opened_from
    /\ last_step' = "other"
    /\ UNCHANGED <<other_len, ports_dirty>>
    /\ UNCHANGED notNavVars

(***************************************************************************)
(* Specifications                                                          *)
(***************************************************************************)
GroupNext == PortsRefresh \/ NodeRefresh

GroupSpecInit == GroupInit /\ TreeIdle /\ MemIdle /\ SnapIdle /\ LifeIdle /\ MainIdle /\ GcIdle /\ NodeCollectIdle /\ PortsCollectIdle /\ InodeIdle /\ Pm2ParseIdle /\ ActivityIdle /\ NavIdle

SpecGroup == GroupSpecInit /\ [][GroupNext]_vars

TreeNext == ProcessRefresh

TreeSpecInit == TreeInit /\ GroupIdle /\ MemIdle /\ SnapIdle /\ LifeIdle /\ MainIdle /\ GcIdle /\ NodeCollectIdle /\ PortsCollectIdle /\ InodeIdle /\ Pm2ParseIdle /\ ActivityIdle /\ NavIdle

SpecTree == TreeSpecInit /\ [][TreeNext]_vars

MemNext == Aggregate

MemSpecInit == MemInit /\ GroupIdle /\ TreeIdle /\ SnapIdle /\ LifeIdle /\ MainIdle /\ GcIdle /\ NodeCollectIdle /\ PortsCollectIdle /\ InodeIdle /\ Pm2ParseIdle /\ ActivityIdle /\ NavIdle

SpecMem == MemSpecInit /\ [][MemNext]_vars

SnapNext ==
    \/ WorkerPollOk \/ WorkerPollFailed \/ WorkerLock \/ WorkerWriteBuf
    \/ WorkerWriteLen \/ WorkerUnlock \/ WorkerWake
    \/ \E c \in Callers :
          \/ SnapshotCall(c) \/ SnapshotLock(c) \/ SnapshotReadBuf(c)
          \/ SnapshotReadLen(c) \/ SnapshotReturn(c)

SnapSpecInit == SnapInit /\ GroupIdle /\ TreeIdle /\ MemIdle /\ LifeIdle /\ MainIdle /\ GcIdle /\ NodeCollectIdle /\ PortsCollectIdle /\ InodeIdle /\ Pm2ParseIdle /\ ActivityIdle /\ NavIdle

SpecSnap == SnapSpecInit /\ [][SnapNext]_vars

LifeNext ==
    \/ OpenContextMenu \/ CloseContextMenu \/ DispatchRecord \/ DispatchSpawn
    \/ \E u \in 1..Len(threads) : UnitRun(u)
    \/ LifeWorkerPublish \/ LifePull \/ DrainCompletion

LifeSpecInit == LifeInit /\ GroupIdle /\ TreeIdle /\ MemIdle /\ SnapIdle /\ MainIdle /\ GcIdle /\ NodeCollectIdle /\ PortsCollectIdle /\ InodeIdle /\ Pm2ParseIdle /\ ActivityIdle /\ NavIdle

SpecLife == LifeSpecInit /\ [][LifeNext]_vars

MainNext ==
    \/ InputPollTimeout
    \/ \E view \in ViewModes : KeySetView(view)
    \/ Tick
    \/ ViewProcess \/ CollectProcesses
    \/ ViewDocker
    \/ ViewPorts \/ GroupPortsDone
    \/ ViewNode \/ DetectNodeProcesses \/ LoadPm2Processes \/ NodeRowsDone
    \/ ExternalReturns

MainSpecInit ==
    MainInit /\ GroupIdle /\ TreeIdle /\ MemIdle /\ SnapIdle /\ LifeIdle /\ GcIdle /\ NodeCollectIdle /\ PortsCollectIdle /\ InodeIdle /\ Pm2ParseIdle /\ ActivityIdle /\ NavIdle

SpecMain == MainSpecInit /\ [][MainNext]_vars

GcNext == DockerRegroup

GcSpecInit ==
    GcInit /\ GroupIdle /\ TreeIdle /\ MemIdle /\ SnapIdle /\ LifeIdle /\ MainIdle /\ NodeCollectIdle /\ PortsCollectIdle /\ InodeIdle /\ Pm2ParseIdle /\ ActivityIdle /\ NavIdle

SpecGC == GcSpecInit /\ [][GcNext]_vars

NodeCollectNext == CollectNodeProcesses

NodeCollectSpecInit ==
    NodeCollectInit /\ GroupIdle /\ TreeIdle /\ MemIdle /\ SnapIdle /\ LifeIdle /\ MainIdle /\ GcIdle /\ PortsCollectIdle /\ InodeIdle /\ Pm2ParseIdle /\ ActivityIdle /\ NavIdle

SpecNodeCollect == NodeCollectSpecInit /\ [][NodeCollectNext]_vars

PortsCollectNext == CollectPorts

PortsCollectSpecInit ==
    PortsCollectInit /\ GroupIdle /\ TreeIdle /\ MemIdle /\ SnapIdle /\ LifeIdle /\ MainIdle /\ GcIdle /\ NodeCollectIdle /\ InodeIdle /\ Pm2ParseIdle /\ ActivityIdle /\ NavIdle

SpecPortsCollect == PortsCollectSpecInit /\ [][PortsCollectNext]_vars

InodeNext == ClockTick \/ ProcFdsChange \/ BuildInodePidMap

InodeSpecInit ==
    InodeInit /\ GroupIdle /\ TreeIdle /\ MemIdle /\ SnapIdle /\ LifeIdle /\ MainIdle /\ GcIdle /\ NodeCollectIdle /\ PortsCollectIdle /\ Pm2ParseIdle /\ ActivityIdle /\ NavIdle

SpecInode == InodeSpecInit /\ [][InodeNext]_vars

\* The cache with a thread that panics under the guard.
InodePoisonNext == ClockTick \/ ProcFdsChange \/ BuildInodePidMap \/ PanicHoldingCacheLock

SpecInodePoison == InodeSpecInit /\ [][InodePoisonNext]_vars

Pm2ParseNext == ParsePm2Json

Pm2ParseSpecInit ==
    Pm2ParseInit /\ GroupIdle /\ TreeIdle /\ MemIdle /\ SnapIdle /\ LifeIdle /\ MainIdle /\ GcIdle /\ NodeCollectIdle /\ PortsCollectIdle /\ InodeIdle /\ ActivityIdle /\ NavIdle

SpecPm2Parse == Pm2ParseSpecInit /\ [][Pm2ParseNext]_vars

ActivityNext == ParseActivityTime

ActivitySpecInit ==
    ActivityInit /\ GroupIdle /\ TreeIdle /\ MemIdle /\ SnapIdle /\ LifeIdle /\ MainIdle /\ GcIdle /\ NodeCollectIdle /\ PortsCollectIdle /\ InodeIdle /\ Pm2ParseIdle /\ NavIdle

SpecActivity == ActivitySpecInit /\ [][ActivityNext]_vars

NavNext == KeyEvent \/ TickEvent \/ MouseEvent \/ MenuClick

NavSpecInit ==
    NavInit /\ GroupIdle /\ TreeIdle /\ MemIdle /\ SnapIdle /\ LifeIdle /\ MainIdle /\ GcIdle /\ NodeCollectIdle /\ PortsCollectIdle /\ InodeIdle /\ Pm2ParseIdle /\ ActivityIdle

SpecNav == NavSpecInit /\ [][NavNext]_vars

(***************************************************************************)
(* C1 and the rows of the grouping views                                   *)
(***************************************************************************)
\* The indices of the Item rows of `rows`, in row order.
RECURSIVE item_indices(_)
item_indices(rows) ==
    IF rows = <<>> THEN <<>>
    ELSE (IF Head(rows).kind = "Item" THEN <<Head(rows).index>> ELSE <<>>)
         \o item_indices(Tail(rows))

\* `s` lists every element of lo..hi exactly once.
ExactlyOnce(s, lo, hi) ==
    /\ Len(s) = hi - lo + 1
    /\ \A k \in lo..hi : Cardinality({i \in 1..Len(s) : s[i] = k}) = 1

\* The rows before the UtilsSpacer row (the call with offset 0 over the main
\* processes) and the rows from it on (the call over the utility processes).
utils_start(rows) ==
    LET hits == {i \in 1..Len(rows) : rows[i].kind = "UtilsSpacer"}
    IN  IF hits = {} THEN Len(rows) + 1 ELSE CHOOSE i \in hits : TRUE

main_part(rows) == SubSeq(rows, 1, utils_start(rows) - 1)

utils_part(rows) == SubSeq(rows, utils_start(rows), Len(rows))

\* C1: the Item rows of group_ports carry every index of the port list
\* exactly once, and the Item rows of group_node_processes carry every
\* index of the slice they were given, shifted by the offset, exactly once:
\* no item is omitted and none is duplicated.
C1_GroupingIsPartition ==
    /\ ExactlyOnce(item_indices(ports_rows), 0, Len(ports_cache) - 1)
    /\ ExactlyOnce(item_indices(main_part(node_rows)), 0, utils_offset - 1)
    /\ ExactlyOnce(item_indices(utils_part(node_rows)), utils_offset, Len(node_view) - 1)

\* A Node refresh put one main process before two utility processes that
\* share a group: the second call ran with offset 1.
C1_Witness ==
    /\ Len(node_view) = 3 /\ utils_offset = 1
    /\ \E i \in 1..Len(node_rows) :
          /\ i > utils_start(node_rows)
          /\ node_rows[i].kind = "Group" /\ node_rows[i].count = 2

(***************************************************************************)
(* C2 and the rows of the process view                                     *)
(***************************************************************************)
row_count(rows, pid) == Cardinality({i \in 1..Len(rows) : rows[i].pid = pid})

\* C2 as stated: once the rows are built, every process id of the record map
\* has exactly one row, in tree mode and with tree mode disabled (where the
\* row has an empty prefix).
C2_EveryProcessHasARow ==
    ~process_dirty =>
        \A pid \in DOMAIN process_cache :
            /\ row_count(rows_cache, pid) = 1
            /\ ~zoom => \A i \in 1..Len(rows_cache) :
                           rows_cache[i].pid = pid => rows_cache[i].prefix = <<>>

\* C2 as amended: in tree mode every process id has exactly one row, a root
\* with an empty prefix or a child with a drawn one; with tree mode disabled
\* exactly the processes that are not children have a row, each one row with
\* an empty prefix, and every child (a process whose parent is another
\* process of the map and not a skipped ancestor) has no row.
C2_RowsByMode ==
    ~process_dirty =>
        \A pid \in DOMAIN process_cache :
            LET child == is_child(pid, process_cache, zoom)
            IN  /\ zoom => row_count(rows_cache, pid) = 1
                /\ zoom => \A i \in 1..Len(rows_cache) :
                       rows_cache[i].pid = pid => (rows_cache[i].prefix = <<>> <=> ~child)
                /\ ~zoom /\ ~child =>
                       /\ row_count(rows_cache, pid) = 1
                       /\ \A i \in 1..Len(rows_cache) :
                             rows_cache[i].pid = pid => rows_cache[i].prefix = <<>>
                /\ ~zoom /\ child => row_count(rows_cache, pid) = 0

\* With tree mode disabled the rows were built for a map of three
\* processes, one of which is a child and has no row.
C2_Witness ==
    /\ ~process_dirty /\ ~zoom
    /\ Cardinality(DOMAIN process_cache) = 3
    /\ Len(rows_cache) = 2

(***************************************************************************)
(* C3 and re-entry of the aggregator                                       *)
(***************************************************************************)
\* The root of each non-empty family of the snapshot.
family_roots ==
    {find_family_root(family_pids(mem_procs, iter_order, Families[f]), mem_procs, Families[f]) :
        f \in {g \in 1..Len(Families) : family_pids(mem_procs, iter_order, Families[g]) # <<>>}}

\* C3: a second run of the aggregator over the map the first run produced
\* leaves every family root with the memory_bytes the first run gave it.
C3_AggregationIdempotent ==
    agg_runs >= 2 =>
        \A root \in family_roots : mem_procs[root].memory_bytes = after_first[root].memory_bytes

(***************************************************************************)
(* C4 and the snapshot under concurrent publishes                          *)
(***************************************************************************)
\* C4: whenever snapshot() returns, the Vec it returns is whole (its length
\* word belongs to its buffer) and is the list that was published when the
\* call began or one published whole since: never a mixture of two lists.
C4_SnapshotIsOldOrNew ==
    [][\A c \in Callers :
          caller_pc[c] = "return" /\ caller_pc'[c] = "idle" =>
              /\ caller_result'[c].len = Len(caller_result'[c].buf)
              /\ caller_result'[c].buf \in caller_old_new[c]]_vars

\* A caller has both words in hand and is about to return, its call having
\* overlapped a publish of a list other than the one it started from, and
\* the worker is already waiting to publish again.
C4_Witness ==
    \E c \in Callers :
        /\ caller_pc[c] = "return"
        /\ Cardinality(caller_old_new[c]) = 2
        /\ worker_pc = "lock"

all_events == received \o operation_channel

count_events(id, ok) ==
    Cardinality({k \in 1..Len(all_events) :
        all_events[k].container_id = id /\ all_events[k].success = ok})

count_done(id, ok) ==
    Cardinality({u \in 1..Len(threads) :
        /\ threads[u].pc = "done"
        /\ threads[u].container_id = id
        /\ threads[u].ok = ok})

units_of(batch, id) ==
    {u \in 1..Len(threads) : threads[u].batch = batch /\ threads[u].container_id = id}

\* C6: for every container and either result, the events sent so far are as
\* many as the units that have run their command with that result, so each
\* unit sends exactly one event carrying its own result; and a dispatch
\* that has spawned all its threads has exactly one unit per selected
\* container, so a group operation over n containers ends with n events.
C6_OneEventPerUnit ==
    /\ \A id \in LifeIds : \A ok \in BOOLEAN : count_events(id, ok) = count_done(id, ok)
    /\ \A b \in 1..Len(batches) :
          (b < Len(batches) \/ spawn_queue = <<>>) =>
              /\ \A k \in 1..Len(batches[b]) :
                    Cardinality(units_of(b, batches[b][k])) = 1
              /\ Cardinality({u \in 1..Len(threads) : threads[u].batch = b})
                    = Len(batches[b])

\* A group operation over two containers is over: one command failed, the
\* other succeeded, and there are two events.
C6_Witness ==
    /\ Len(threads) = 2
    /\ threads[1].batch = threads[2].batch
    /\ threads[1].pc = "done" /\ threads[2].pc = "done"
    /\ ~threads[1].ok /\ threads[2].ok
    /\ Len(all_events) = 2

C8_MainLoopNeverStalls ==
    ~(main_pc = "external" /\ external_command.v \in hung_commands)

(***************************************************************************)
(* C9, C10 and the rows of group_containers                                *)
(***************************************************************************)
group_positions == {p \in 1..Len(docker_rows) : docker_rows[p].kind = "Group"}

separator_positions == {p \in 1..Len(docker_rows) : docker_rows[p].kind = "Separator"}

item_positions == {p \in 1..Len(docker_rows) : docker_rows[p].kind = "Item"}

\* The Other group: no compose path and the reserved name.
is_other_group(p) ==
    docker_rows[p].name = OTHER_NAME /\ docker_rows[p].path = None

\* The activity of the containers listed under the Group row at p.
group_activities(p) ==
    {docker_view[docker_rows[q].index + 1].activity_secs :
        q \in {r \in item_positions : r > p /\ r <= p + docker_rows[p].count}}

\* The activity of the most recent member of the group at p.
group_recency(p) ==
    CHOOSE a \in group_activities(p) : \A b \in group_activities(p) : a <= b

\* C9: once group_containers has run, the groups other than Other come in
\* non-decreasing order of the activity of their most recent member, the
\* Other group, when a container without compose group is listed, is the
\* last group, and the rows start with a group, with exactly one Separator
\* before every later group and nowhere else.
C9_GroupOrderAndSeparators ==
    ~docker_dirty =>
        /\ \A p, q \in group_positions :
              (p < q /\ ~is_other_group(p) /\ ~is_other_group(q)) =>
                  group_recency(p) <= group_recency(q)
        /\ (\E k \in 1..Len(docker_view) : group_key(docker_view[k]) = OTHER_NAME) =>
              \E p \in group_positions :
                  is_other_group(p) /\ \A q \in group_positions : q <= p
        /\ \A p \in group_positions :
              is_other_group(p) => \A q \in group_positions : q <= p
        /\ docker_rows # <<>> => docker_rows[1].kind = "Group"
        /\ \A p \in group_positions :
              p > 1 => /\ docker_rows[p - 1].kind = "Separator"
                       /\ docker_rows[p - 2].kind = "Item"
        /\ \A p \in separator_positions :
              p < Len(docker_rows) /\ docker_rows[p + 1].kind = "Group"

\* Three groups came out: the project in /srv/app, more recent, ahead of
\* the one in /srv/Other although its key sorts later, and the Other group
\* last although its container is the most recent of all.
C9_Witness ==
    /\ ~docker_dirty
    /\ Cardinality(group_positions) = 3
    /\ docker_rows[1].path = Some("/srv/app")
    /\ docker_rows[4].kind = "Group" /\ docker_rows[4].path = Some("/srv/Other")
    /\ docker_rows[7].kind = "Group" /\ is_other_group(7)
    /\ group_recency(7) < group_recency(1)
    /\ group_recency(1) < group_recency(4)

\* C10: once group_containers has run, the flat list holds the containers
\* it was handed, each once; the Item rows carry the indices 0..n-1, each
\* once, all of them positions of the flat list; and no Separator is the
\* first row or next to another Separator.
C10_ItemIndicesAndSeparators ==
    ~docker_dirty =>
        /\ Len(docker_view) = Len(grouped_from)
        /\ \A k \in 1..Len(grouped_from) :
              Cardinality({j \in 1..Len(docker_view) : docker_view[j] = grouped_from[k]}) = 1
        /\ Cardinality(item_positions) = Len(grouped_from)
        /\ \A i \in 0..(Len(grouped_from) - 1) :
              Cardinality({p \in item_positions : docker_rows[p].index = i}) = 1
        /\ \A p \in item_positions :
              docker_rows[p].index >= 0 /\ docker_rows[p].index < Len(docker_view)
        /\ 1 \notin separator_positions
        /\ \A p \in separator_positions : p + 1 \notin separator_positions

\* Three containers in three groups were regrouped into another order,
\* with two Separator rows.
C10_Witness ==
    /\ ~docker_dirty
    /\ Len(grouped_from) = 3
    /\ docker_view # grouped_from
    /\ Cardinality(separator_positions) = 2
    /\ Cardinality(item_positions) = 3

(***************************************************************************)
(* C11, C12 and the rule that picks an item's group                        *)
(***************************************************************************)
\* The position of the Group row above the Item row that carries `index`.
group_row_above(rows, index) ==
    LET at == CHOOSE p \in 1..Len(rows) : rows[p].kind = "Item" /\ rows[p].index = index
    IN  CHOOSE g \in 1..at :
            /\ rows[g].kind = "Group"
            /\ \A q \in (g + 1)..at : rows[q].kind = "Item"

\* The indices of the Item rows that follow the Group row at g.
items_under(rows, g) ==
    {rows[q].index : q \in {r \in (g + 1)..Len(rows) :
        \A m \in (g + 1)..r : rows[m].kind = "Item"}}

token_key_of(label) == to_ascii_lowercase(group_token_from_label(label))

same_token(labels, i) == {j \in 1..Len(labels) : token_key_of(labels[j]) = token_key_of(labels[i])}

same_label(labels, i) ==
    {j \in 1..Len(labels) : to_ascii_lowercase(labels[j]) = to_ascii_lowercase(labels[i])}

first_of(S) == CHOOSE j \in S : \A k \in S : j <= k

\* The rule of C11 for one call: `labels` are the labels of the list the
\* call was given, `rows` the rows it returned, `offset` what it added to
\* the indices.
token_rule(labels, rows, offset) ==
    \A i \in 1..Len(labels) :
        LET g == group_row_above(rows, i - 1 + offset)
        IN  IF Cardinality(same_token(labels, i)) > 1
            THEN /\ rows[g].name = group_token_from_label(labels[first_of(same_token(labels, i))])
                 /\ items_under(rows, g) = {j - 1 + offset : j \in same_token(labels, i)}
            ELSE /\ rows[g].name = labels[i]
                 /\ items_under(rows, g) = {j - 1 + offset : j \in same_label(labels, i)}

port_labels == [i \in 1..Len(ports_cache) |-> group_label_for_port(ports_cache[i])]

node_main_labels == [i \in 1..utils_offset |-> group_label_for_node(node_view[i])]

node_utils_labels ==
    [i \in 1..(Len(node_view) - utils_offset) |->
        group_label_for_node(node_view[utils_offset + i])]

\* The Group and Item rows of the call over the utility processes.
utils_group_rows(rows) ==
    SelectSeq(utils_part(rows), LAMBDA r : r.kind \in {"Group", "Item"})

rows_built == ports_rows # <<>> \/ node_rows # <<>>

\* C11: in the rows of group_ports and of each call of
\* group_node_processes, an item whose token (compared without case) is
\* the token of more than one item of the list sits under a group named by
\* the token that holds exactly the items with that token; an item whose
\* token occurs once sits under a group named by its full label.
C11_TokenMajorityRule ==
    rows_built =>
        /\ token_rule(port_labels, ports_rows, 0)
        /\ token_rule(node_main_labels, main_part(node_rows), 0)
        /\ token_rule(node_utils_labels, utils_group_rows(node_rows), utils_offset)

\* Three ports were grouped: two share the token ab in different case and
\* sit under one group, the third has the token c alone and sits under its
\* full label.
C11_Witness ==
    /\ Len(ports_cache) = 3
    /\ Len(ports_rows) = 5
    /\ \E i \in 1..3 :
          /\ Cardinality(same_token(port_labels, i)) = 2
          /\ \E j \in same_token(port_labels, i) : port_labels[j] # port_labels[i]
    /\ \E i \in 1..3 :
          /\ Cardinality(same_token(port_labels, i)) = 1
          /\ group_token_from_label(port_labels[i]) # port_labels[i]

\* The group key the rule gives the item at i: its token when the token is
\* shared, its label otherwise.
rule_key(labels, i) ==
    IF Cardinality(same_token(labels, i)) > 1 /\ token_key_of(labels[i]) # <<>>
    THEN <<"token", token_key_of(labels[i])>>
    ELSE <<"label", to_ascii_lowercase(labels[i])>>

group_rows_in(rows) == {g \in 1..Len(rows) : rows[g].kind = "Group"}

\* The shape of C12 for one call.
stable_partition(labels, rows) ==
    /\ rows # <<>> => rows[1].kind = "Group"
    /\ \A g, h \in group_rows_in(rows) :
          g < h => first_of(items_under(rows, g)) < first_of(items_under(rows, h))
    /\ \A p \in 1..(Len(rows) - 1) :
          (rows[p].kind = "Item" /\ rows[p + 1].kind = "Item") =>
              rows[p].index < rows[p + 1].index
    /\ \A g \in group_rows_in(rows) :
          /\ rows[g].count = Cardinality(items_under(rows, g))
          /\ rows[g].count > 0
    /\ Cardinality(group_rows_in(rows))
          = Cardinality({rule_key(labels, i) : i \in 1..Len(labels)})

\* C12: in the rows of each grouping call the Group rows come in the order
\* in which their first item occurs in the input, each is followed at once
\* by its Item rows in increasing input order, its count is the number of
\* those rows, and there are as many Group rows as distinct group keys.
C12_StablePartition ==
    rows_built =>
        /\ stable_partition(port_labels, ports_rows)
        /\ stable_partition(node_main_labels, main_part(node_rows))
        /\ stable_partition(node_utils_labels, utils_group_rows(node_rows))

\* Three ports were grouped, the first and the third into one group, the
\* second on its own: the rows are Group, Item 0, Item 2, Group, Item 1.
C12_Witness ==
    /\ Len(ports_rows) = 5
    /\ ports_rows[1].kind = "Group" /\ ports_rows[1].count = 2
    /\ ports_rows[2].kind = "Item" /\ ports_rows[2].index = 0
    /\ ports_rows[3].kind = "Item" /\ ports_rows[3].index = 2
    /\ ports_rows[4].kind = "Group" /\ ports_rows[4].count = 1
    /\ ports_rows[5].kind = "Item" /\ ports_rows[5].index = 1
(***************************************************************************)
(* C13: PM2 entries in the result of collect_node_processes                *)
(***************************************************************************)
\* The entry's pid is the pid of a detected Node.js process.
has_live_pid(pm2_proc) == pm2_proc.pid.some /\ pm2_proc.pid.v \in DOMAIN node_system

\* C13: every entry of the PM2 list is represented in the result of
\* collect_node_processes with an empty filter: an entry whose pid is that
\* of a detected process has enriched that process's row, and every entry
\* without a live pid has a row of its own that carries its PM2 status.
C13_EveryPm2EntryHasARow ==
    collect_done =>
        \A i \in 1..Len(pm2_procs) :
            \E k \in 1..Len(collected) :
                /\ collected[k].pm2 = Some(pm2_info(pm2_procs[i]))
                /\ IF has_live_pid(pm2_procs[i])
                   THEN /\ collected[k].pid = pm2_procs[i].pid.v
                        /\ collected[k].script = node_system[collected[k].pid].script
                   ELSE collected[k] = stopped_row(pm2_procs[i])

\* A list with one entry that enriches a detected process and one stopped
\* entry, both in the result.
C13_OneStoppedEntry ==
    /\ collect_done
    /\ Len(pm2_procs) = 2
    /\ has_live_pid(pm2_procs[1])
    /\ pm2_procs[2].pid = Some(0)
    /\ \E k \in 1..Len(collected) : collected[k] = stopped_row(pm2_procs[2])
    /\ \E k \in 1..Len(collected) :
          collected[k].pid = pm2_procs[1].pid.v /\ collected[k].pm2 = Some(pm2_info(pm2_procs[1]))

(***************************************************************************)
(* C18: group_cluster_workers                                              *)
(***************************************************************************)
pm2_part(procs) == select_seq(procs, [i \in 1..Len(procs) |-> procs[i].pm2.some])

non_pm2_part(procs) == select_seq(procs, [i \in 1..Len(procs) |-> ~procs[i].pm2.some])

\* The positions of `procs` that hold non-PM2 processes running `script`.
workers_of(procs, script) ==
    {i \in 1..Len(procs) : ~procs[i].pm2.some /\ procs[i].script = script}

RECURSIVE sum_over(_, _, _)
sum_over(procs, S, field) ==
    IF S = {} THEN 0
    ELSE LET i == CHOOSE j \in S : TRUE
         IN  procs[i][field] + sum_over(procs, S \ {i}, field)

\* C18: group_cluster_workers returns, for every script path that a
\* non-PM2 process runs, exactly one non-PM2 row: it has the lowest pid of
\* the processes with that path, the sums of their CPU and memory and their
\* number as worker_count. The PM2 rows come back as they went in, the
\* worker counts of the non-PM2 rows add up to the number of non-PM2
\* processes, and the memory of all rows adds up to what went in.
C18_ClusterWorkersMerged ==
    collect_done =>
        LET input == cluster_from
            output == cluster_merged
            out_rows == non_pm2_part(output)
        IN  /\ \A i \in 1..Len(input) :
                  ~input[i].pm2.some =>
                      LET group == workers_of(input, input[i].script)
                          rows == workers_of(output, input[i].script)
                      IN  /\ Cardinality(rows) = 1
                          /\ \A k \in rows :
                                /\ \A j \in group : output[k].pid <= input[j].pid
                                /\ \E j \in group : output[k].pid = input[j].pid
                                /\ output[k].cpu = sum_over(input, group, "cpu")
                                /\ output[k].memory_bytes = sum_over(input, group, "memory_bytes")
                                /\ output[k].worker_count = Cardinality(group)
            /\ \A k \in 1..Len(out_rows) : workers_of(input, out_rows[k].script) # {}
            /\ pm2_part(output) = pm2_part(input)
            /\ sum_of(out_rows, "worker_count") = Len(non_pm2_part(input))
            /\ sum_of(output, "memory_bytes") = sum_of(input, "memory_bytes")

\* Two processes with one script path and different memory readings are
\* merged into one row, next to the row of a PM2 entry with the same script
\* path, which stays as it is.
C18_Witness ==
    /\ collect_done
    /\ Len(cluster_from) = 3
    /\ Len(cluster_merged) = 2
    /\ \A i \in 1..3 : cluster_from[i].script = "a.js"
    /\ Cardinality(workers_of(cluster_from, "a.js")) = 2
    /\ \E i, j \in workers_of(cluster_from, "a.js") :
          cluster_from[i].memory_bytes # cluster_from[j].memory_bytes
    /\ \E k \in 1..2 : cluster_merged[k].worker_count = 2 /\ cluster_merged[k].memory_bytes = 3

(***************************************************************************)
(* C14: a failed poll of the Docker stats worker                           *)
(***************************************************************************)
PollFailures == {"no_cli", "listing_failed", "stats_failed"}

\* C14: a poll that fails (no engine CLI, or a non-zero exit of the
\* listing or of the stats call) publishes nothing: the step that ends it
\* leaves the shared Vec and the last published list as they were and takes
\* the worker to its sleep, from where it polls again. The shared Vec
\* changes only while the worker writes the list of a poll that succeeded,
\* so a snapshot() with no publish during the call returns the last list
\* published, the empty list as long as none was.
C14_FailedPollPublishesNothing ==
    [][/\ (worker_pc = "poll" /\ poll_result' \in PollFailures =>
              /\ docker_data' = docker_data
              /\ committed' = committed
              /\ lock_owner' = lock_owner
              /\ worker_pc' = "sleep")
       /\ (docker_data' # docker_data \/ committed' # committed =>
              /\ worker_pc \in {"write_buf", "write_len"}
              /\ poll_result = "loaded"
              /\ worker_stats.some)
       /\ \A c \in Callers :
              caller_pc[c] = "return" /\ caller_pc'[c] = "idle" /\ caller_old_new[c] = {committed} =>
                  caller_result'[c] = vec_of(committed)]_vars

\* The stats call failed after a list of two containers had been published,
\* and a caller of snapshot() holds that list.
C14_Witness ==
    /\ worker_pc = "sleep"
    /\ poll_result = "stats_failed"
    /\ Len(committed) = 2
    /\ docker_data = vec_of(committed)
    /\ \E c \in Callers : caller_pc[c] = "return" /\ caller_local[c] = vec_of(committed)

\* No poll has succeeded yet, and a caller of snapshot() holds the empty list.
C14_WitnessNeverPublished ==
    /\ worker_pc = "sleep"
    /\ poll_result = "no_cli"
    /\ committed = <<>>
    /\ \E c \in Callers : caller_pc[c] = "return" /\ caller_local[c] = vec_of(<<>>)

(***************************************************************************)
(* C16: socket rows win over engine bindings                               *)
(***************************************************************************)
is_binding_row(row) == row.pid = 0 /\ row.container_id.some

positions_of(rows, row) == {i \in 1..Len(rows) : rows[i] = row}

\* C16: the result of collect_ports holds no engine-binding row (pid 0, a
\* container id) with the protocol and port of a socket row of the same
\* result. Every socket row of the scan is in the result once, and of the
\* bindings exactly those whose protocol and port no socket row has.
C16_ProcScanRowWins ==
    ports_done =>
        /\ \A i, j \in 1..Len(ports_collected) :
              is_binding_row(ports_collected[i]) /\ ~is_binding_row(ports_collected[j]) =>
                  <<ports_collected[i].proto, ports_collected[i].port>>
                      # <<ports_collected[j].proto, ports_collected[j].port>>
        /\ \A i \in 1..Len(proc_scan) :
              Cardinality(positions_of(ports_collected, proc_scan[i])) = 1
        /\ \A i \in 1..Len(docker_bindings) :
              Cardinality(positions_of(ports_collected, docker_bindings[i]))
                  = IF \E j \in 1..Len(proc_scan) :
                          /\ proc_scan[j].proto = docker_bindings[i].proto
                          /\ proc_scan[j].port = docker_bindings[i].port
                    THEN 0
                    ELSE Cardinality(positions_of(docker_bindings, docker_bindings[i]))
        /\ \A k \in 1..Len(ports_collected) :
              \/ positions_of(proc_scan, ports_collected[k]) # {}
              \/ positions_of(docker_bindings, ports_collected[k]) # {}

\* The scan and the engine both report tcp port 80, the engine also tcp
\* port 443: the result is the socket row and the binding of port 443.
C16_Witness ==
    /\ ports_done
    /\ proc_scan = <<proc_port_row("tcp", 80, 1)>>
    /\ docker_bindings = <<docker_port_row("tcp", 80, "c1"), docker_port_row("tcp", 443, "c1")>>
    /\ ports_collected = <<proc_port_row("tcp", 80, 1), docker_port_row("tcp", 443, "c1")>>

(***************************************************************************)
(* C17: the member that receives a family's total                          *)
(***************************************************************************)
MemOrders == Permutations_of(MemPids)

\* The members of `family`: its processes that are not threads.
family_members(processes, family) ==
    {pid \in DOMAIN processes :
        ~processes[pid].is_thread /\ get_app_family(processes[pid].name_lower) = Some(family)}

\* The members whose parent is absent, unknown or not named like the family.
members_outside(processes, family) ==
    {pid \in family_members(processes, family) :
        ~(/\ processes[pid].parent.some
          /\ processes[pid].parent.v \in DOMAIN processes
          /\ get_app_family(processes[processes[pid].parent.v].name_lower) = Some(family))}

lowest_root(processes, family) ==
    IF members_outside(processes, family) # {}
    THEN set_min(members_outside(processes, family))
    ELSE set_min(family_members(processes, family))

\* C17: a run of the aggregator writes each non-empty family's total to one
\* member, the lowest pid among the members whose parent is not classified
\* in the family (the lowest pid of all members when every parent is), in
\* whatever order the processes are enumerated; every other process keeps
\* the memory value it had.
C17_TotalOnLowestRoot ==
    [][agg_runs' = agg_runs + 1 =>
          /\ \A f \in 1..Len(Families) :
                LET family == Families[f]
                    root == lowest_root(mem_procs, family)
                IN  family_members(mem_procs, family) # {} =>
                        /\ \A order \in MemOrders :
                              find_family_root(family_pids(mem_procs, order, family),
                                               mem_procs, family) = root
                        /\ mem_procs'[root].memory_bytes =
                              family_total(family_pids(mem_procs, iter_order, family), family,
                                           mem_procs, pss_bytes, cgroup_of, cgroup_current)
                        /\ \A pid \in family_members(mem_procs, family) \ {root} :
                              mem_procs'[pid] = mem_procs[pid]
          /\ \A pid \in DOMAIN mem_procs :
                (\A f \in 1..Len(Families) : pid \notin family_members(mem_procs, Families[f])) =>
                    mem_procs'[pid] = mem_procs[pid]]_vars

\* Two chrome processes, the lower pid the child of the other: after one
\* run the parent holds the sum of the two PSS readings and the child its
\* own resident size.
C17_Witness ==
    /\ agg_runs = 1
    /\ family_members(mem_procs, "chrome") = {1, 2}
    /\ mem_procs[1].parent = Some(2)
    /\ mem_procs[2].parent = None
    /\ pss_bytes[1].some /\ pss_bytes[2].some
    /\ mem_procs[1].memory_bytes = rss_of(1)
    /\ mem_procs[2].memory_bytes = pss_of(1) + pss_of(2)

(***************************************************************************)
(* C19: the TTL of the inode map cache                                     *)
(***************************************************************************)
\* The maps a scan of /proc can return now.
scans_now == {build_inode_pid_map_uncached(proc_fds, dir_order) : dir_order \in Permutations_of(ScanPids)}

\* There is a cached copy, and less than the TTL has passed since its
\* refresh time.
younger_than_ttl ==
    inode_cache.some /\ clock_now - inode_cache.v.last_refresh < INODE_MAP_TTL

\* What a call does with a usable cache: a copy younger than the TTL is
\* returned as it is and nothing is scanned; otherwise /proc is scanned, and
\* the scan and the time at its end become the cached copy.
serves_from_cache ==
    IF younger_than_ttl
    THEN /\ inode_result' = inode_cache.v.map
         /\ ~rescanned'
         /\ inode_cache' = inode_cache
    ELSE /\ rescanned'
         /\ inode_result' \in scans_now
         /\ inode_cache' = Some([map |-> inode_result', last_refresh |-> clock_now'])

\* C19: a call of build_inode_pid_map made less than INODE_MAP_TTL seconds
\* after the last rebuild returns the cached map and does not scan; a call
\* made when the copy is at least that old, or when there is none, scans
\* /proc and replaces the cached map and its refresh time.
C19_CacheServedWithinTtl ==
    [][inode_calls' = inode_calls + 1 => serves_from_cache]_vars

\* A call has just been served a copy that is one second old, while /proc
\* has changed since and a scan would return another map.
C19_Witness ==
    /\ inode_calls >= 2
    /\ ~rescanned
    /\ inode_cache.some
    /\ clock_now - inode_cache.v.last_refresh = 1
    /\ inode_result = inode_cache.v.map
    /\ inode_result \notin scans_now

\* A call has just scanned /proc because the copy was exactly as old as the
\* TTL, and the scan is the new copy.
C19_WitnessExpired ==
    /\ inode_calls >= 2
    /\ rescanned
    /\ inode_cache = Some([map |-> inode_result, last_refresh |-> clock_now])
    /\ clock_now = INODE_MAP_TTL
    /\ inode_result # <<>>

(***************************************************************************)
(* C15: a poisoned lock                                                    *)
(***************************************************************************)
\* C15: after a thread has panicked under the guard of the cache, a lookup
\* completes and goes on with the value in the mutex: it does what it does
\* with a lock that is not poisoned.
C15_PoisonedLockUsesInnerValue ==
    [][inode_calls' = inode_calls + 1 /\ cache_poisoned => serves_from_cache]_vars

(***************************************************************************)
(* C20: what parse_pm2_json reads out of the list                          *)
(***************************************************************************)
\* The entry that holds the values of one element of the list.
entry_of(src) ==
    [pm_id |-> src.pm_id, name |-> src.name,
     mode |-> IF contains(src.exec_mode, TEXT_cluster) THEN TEXT_cluster ELSE TEXT_fork,
     status |-> src.status, pid |-> Some(src.pid), cpu |-> Some(src.cpu),
     memory_bytes |-> Some(src.memory), restarts |-> src.restart_time,
     uptime_ms |-> None, script |-> None]

RECURSIVE entries_of(_)
entries_of(sources) ==
    IF sources = <<>> THEN <<>>
    ELSE (IF Head(sources).numbered THEN <<entry_of(Head(sources))>> ELSE <<>>)
         \o entries_of(Tail(sources))

\* The list of the scenario: pm_id 0, name "api", pid 55, status "online",
\* exec_mode "cluster_mode", restart_time 3, cpu 1.5, memory 2048.
scenario_list ==
    <<[pm_id |-> 0, numbered |-> TRUE, name |-> NAME_api, pid |-> 55, status |-> TEXT_online,
       exec_mode |-> TEXT_cluster_mode, restart_time |-> 3, cpu |-> TEXT_1_5, memory |-> 2048]>>

\* C20: parse_pm2_json returns one entry per element of the list, and each
\* field of an entry is the value that follows the field's key in the
\* element: for the list of the scenario one entry with pm_id 0, name
\* "api", mode "cluster", status "online", restarts 3 and memory 2048.
C20_FieldsFollowTheirKeys ==
    jlist_parsed.some =>
        /\ jlist_parsed.v.kind = "Ok"
        /\ jlist_parsed.v.processes = entries_of(jlist_source)

\* The list of the scenario is read as the scenario says.
C20_ScenarioParsed ==
    /\ jlist_source = scenario_list
    /\ jlist_parsed.some
    /\ jlist_parsed.v.kind = "Ok"
    /\ Len(jlist_parsed.v.processes) = 1
    /\ jlist_parsed.v.processes[1].pm_id = 0
    /\ jlist_parsed.v.processes[1].name = NAME_api
    /\ jlist_parsed.v.processes[1].mode = TEXT_cluster
    /\ jlist_parsed.v.processes[1].status = TEXT_online
    /\ jlist_parsed.v.processes[1].restarts = 3
    /\ jlist_parsed.v.processes[1].memory_bytes = Some(2048)

\* Every list whose names are ASCII is read as C20 says.
C20_AsciiListsParsed ==
    jlist_parsed.some /\ (\A i \in 1..Len(jlist_source) : jlist_source[i].name \in AsciiNames) =>
        /\ jlist_parsed.v.kind = "Ok"
        /\ jlist_parsed.v.processes = entries_of(jlist_source)

(***************************************************************************)
(* C21: one process per numbered element                                   *)
(***************************************************************************)
RECURSIVE numbered_ids(_)
numbered_ids(sources) ==
    IF sources = <<>> THEN <<>>
    ELSE (IF Head(sources).numbered THEN <<Head(sources).pm_id>> ELSE <<>>)
         \o numbered_ids(Tail(sources))

parsed_ids == [i \in 1..Len(jlist_parsed.v.processes) |-> jlist_parsed.v.processes[i].pm_id]

\* C21: parse_pm2_json returns, in the order of the array, exactly one
\* process per top-level element that carries a numeric pm_id; the empty
\* array gives the empty list, and the commas and braces of nested objects
\* and of quoted strings neither split nor merge elements.
C21_OneProcessPerNumberedElement ==
    jlist_parsed.some =>
        /\ jlist_parsed.v.kind = "Ok"
        /\ parsed_ids = numbered_ids(jlist_source)

\* The split alone: split_json_objects cuts the text between the brackets
\* into the texts of the elements, whatever their names are.
C21_SplitIsExact ==
    jlist_parsed.some =>
        split_json_objects(SubSeq(jlist_text, 2, Len(jlist_text) - 1))
            = [i \in 1..Len(jlist_source) |-> render_object(jlist_source[i])]

\* Every list whose names are ASCII is read as C21 says.
C21_AsciiListsCounted ==
    jlist_parsed.some /\ (\A i \in 1..Len(jlist_source) : jlist_source[i].name \in AsciiNames) =>
        /\ jlist_parsed.v.kind = "Ok"
        /\ parsed_ids = numbered_ids(jlist_source)

\* A list of two elements, the first named with a brace and a comma, the
\* second without a numeric pm_id, is read as one process.
C21_BracesInNameRead ==
    /\ Len(jlist_source) = 2
    /\ jlist_source[1].name = NAME_braces /\ jlist_source[1].numbered
    /\ ~jlist_source[2].numbered
    /\ jlist_parsed.some
    /\ jlist_parsed.v.kind = "Ok"
    /\ parsed_ids = <<0>>

(***************************************************************************)
(* C22, C23: the recency of a status                                       *)
(***************************************************************************)
counted == status_source.form \in StatusForms

\* N times the seconds of the unit is a number of the u64.
product_fits ==
    /\ status_source.count.fits
    /\ status_source.count.n <= U64_MAX \div status_source.unit.secs

\* `value` is N times the number of seconds in the unit.
is_count_times_unit(value) ==
    /\ status_source.count.fits
    /\ value \div status_source.unit.secs = status_source.count.n
    /\ value % status_source.unit.secs = 0

C22_WitnessSaturated ==
    /\ counted /\ status_source.count.fits /\ ~product_fits
    /\ recency = Some(U64_MAX)

\* The value of "Created".
created_recency == parse_activity_time(STATUS_Created)

\* N times the seconds of the unit is more than u64::MAX / 2.
duration_beyond_half ==
    /\ counted
    /\ status_source.count.fits
    /\ status_source.count.n > (U64_MAX \div 2) \div status_source.unit.secs

C23_WitnessBeyond ==
    /\ duration_beyond_half
    /\ recency.some /\ recency.v > created_recency

(***************************************************************************)
(* C24: the tree rows are a sorted pre-order walk                          *)
(***************************************************************************)
row_of(pid) == CHOOSE i \in 1..Len(rows_cache) : rows_cache[i].pid = pid

\* The parent under which a process is drawn, None for a root.
drawn_parent(pid) ==
    IF is_child(pid, process_cache, zoom) THEN process_cache[pid].parent ELSE None

siblings(a, b) == a # b /\ drawn_parent(a) = drawn_parent(b)

\* One of the orders in which the hash map can yield its entries.
by_pid == pushed_in_order(DOMAIN process_cache, [i \in 1..MaxPid |-> i])

\* The active sort key of a process.
sort_key(pid) ==
    CASE sort_by = "Cpu" -> process_cache[pid].cpu
      [] sort_by = "Memory" -> process_cache[pid].memory_bytes
      [] sort_by = "Name" -> name_rank(process_cache[pid].name_lower)

\* `a` goes before `b` by the sort key and order, the process id deciding
\* between equal keys.
goes_before(a, b) ==
    IF sort_order = "Asc"
    THEN sort_key(a) < sort_key(b) \/ (sort_key(a) = sort_key(b) /\ a < b)
    ELSE sort_key(a) > sort_key(b) \/ (sort_key(a) = sort_key(b) /\ a > b)

\* C24: in tree mode the rows are a pre-order walk: a child's row comes
\* after its parent's row and before the row of every later sibling of the
\* parent; the siblings of every level, the roots included, are in the
\* order of the sort key and sort order with the process id as the last
\* tiebreaker; and whatever the order in which the hash map yielded its
\* entries, the rows are those that the order by process id gives.
C24_SortedPreOrder ==
    ~process_dirty /\ zoom =>
        /\ \A pid \in DOMAIN process_cache :
              drawn_parent(pid).some =>
                  /\ row_of(drawn_parent(pid).v) < row_of(pid)
                  /\ \A later \in DOMAIN process_cache :
                        /\ siblings(drawn_parent(pid).v, later)
                        /\ row_of(drawn_parent(pid).v) < row_of(later)
                        => row_of(pid) < row_of(later)
        /\ \A a, b \in DOMAIN process_cache :
              siblings(a, b) => (row_of(a) < row_of(b) <=> goes_before(a, b))
        /\ rows_cache = build_tree_rows(process_cache, sort_by, sort_order, zoom, by_pid)

\* By memory, descending, with equal memory everywhere: root 2, its child 3,
\* then root 1.
C24_Witness ==
    /\ ~process_dirty /\ zoom
    /\ sort_by = "Memory" /\ sort_order = "Desc"
    /\ Len(rows_cache) = 3
    /\ rows_cache[1].pid = 2 /\ rows_cache[1].prefix = <<>>
    /\ rows_cache[2].pid = 3 /\ rows_cache[2].prefix # <<>>
    /\ rows_cache[3].pid = 1 /\ rows_cache[3].prefix = <<>>

(***************************************************************************)
(* C25: cgroup reading or sum of PSS                                       *)
(***************************************************************************)
\* The path looks application-specific for the family.
path_is_specific(cgroup, family) ==
    family \in cgroup.words \/ cgroup.app_dash \/ (cgroup.scope /\ ~cgroup.session)

\* All members of the family have the identical cgroup-v2 path, and that
\* path is application-specific.
all_share_specific_path(family) ==
    \E cgroup \in CgroupPaths :
        /\ \A pid \in family_members(mem_procs, family) : cgroup_of[pid] = Some(cgroup)
        /\ path_is_specific(cgroup, family)

\* The sum of the members' PSS, the size the OS reported for a member
\* standing in where its PSS is unavailable.
RECURSIVE pss_sum(_)
pss_sum(members) ==
    IF members = {} THEN 0
    ELSE LET pid == set_min(members)
         IN  (IF pss_bytes[pid].some THEN pss_bytes[pid].v ELSE rss_of(pid))
             + pss_sum(members \ {pid})

expected_total(family) ==
    IF all_share_specific_path(family) /\ cgroup_current.some THEN cgroup_current.v
    ELSE pss_sum(family_members(mem_procs, family))

\* C25: the total of a family is the unified cgroup reading only if all its
\* members have the identical cgroup-v2 path and that path is
\* application-specific; in every other case it is the sum of the members'
\* PSS (RSS where the PSS is unavailable), whatever the order in which the
\* members are enumerated.
C25_CgroupOnlyWhenAllShare ==
    agg_runs = 1 =>
        \A f \in 1..Len(Families) :
            family_members(mem_procs, Families[f]) # {} =>
                mem_procs[lowest_root(mem_procs, Families[f])].memory_bytes
                    = expected_total(Families[f])

\* The same when the cgroup path of every member can be read, or of none.
C25_HoldsWhenPathsReadable ==
    /\ agg_runs = 1
    /\ \/ \A pid \in MemPids : cgroup_of[pid].some
       \/ \A pid \in MemPids : ~cgroup_of[pid].some
    => \A f \in 1..Len(Families) :
            family_members(mem_procs, Families[f]) # {} =>
                mem_procs[lowest_root(mem_procs, Families[f])].memory_bytes
                    = expected_total(Families[f])

\* Two members on one application-specific path got the cgroup reading.
C25_WitnessUnified ==
    /\ agg_runs = 1
    /\ family_members(mem_procs, "chrome") = {1, 2}
    /\ all_share_specific_path("chrome")
    /\ mem_procs[1].memory_bytes = cgroup_memory_value

\* The first member enumerated has a path, the other has none, and the
\* family got the cgroup reading.
C25_WitnessUnreadablePath ==
    /\ agg_runs = 1
    /\ family_members(mem_procs, "chrome") = {1, 2}
    /\ cgroup_of[iter_order[1]].some /\ ~cgroup_of[iter_order[2]].some
    /\ mem_procs[1].memory_bytes = cgroup_memory_value

(***************************************************************************)
(* C26: a group command and the members of the group                       *)
(***************************************************************************)
\* The grouping key of a group row: the path when present, else the name.
row_key(target) == IF target.path.some THEN target.path.v ELSE target.name

\* The ids of the containers whose grouping key is that of the group row.
ids_in_group(containers, target) ==
    {containers[i].id : i \in {k \in 1..Len(containers) :
                                  group_key(containers[k]) = row_key(target)}}

ids_of(list) == {list[k] : k \in 1..Len(list)}

\* A step of execute_context_action on a group row that found containers.
group_command_step ==
    /\ context_menu.some
    /\ context_menu.v.target.kind = "Group"
    /\ context_menu' = None
    /\ Len(batches') = Len(batches) + 1

\* C26: a start, stop or restart issued on a group row marks as pending and
\* dispatches a command for exactly the containers with the grouping key of
\* that row (the path when present, else the name, else "Other"), and for
\* no container of another group.
C26_GroupCommandStaysInGroup ==
    [][group_command_step =>
          LET members == ids_in_group(life_containers, context_menu.v.target)
          IN  /\ ids_of(spawn_queue') = members
              /\ \A id \in LifeIds \ members :
                     pending_operations'[id] = pending_operations[id]
              /\ \A id \in members : pending_operations'[id].some]_vars

\* The same for the rows of groups that have a path.
C26_HoldsWhenGroupHasPath ==
    [][group_command_step /\ context_menu.v.target.path.some =>
          LET members == ids_in_group(life_containers, context_menu.v.target)
          IN  /\ ids_of(spawn_queue') = members
              /\ \A id \in LifeIds \ members :
                     pending_operations'[id] = pending_operations[id]
              /\ \A id \in members : pending_operations'[id].some]_vars

\* A command issued on the row of a path-less group was dispatched for a
\* container of another group.
C26_WitnessOtherGroup ==
    /\ batches # <<>>
    /\ Len(batches[1]) = 2
    /\ life_containers # <<>>
    /\ group_key(life_containers[1]) # group_key(life_containers[2])

(***************************************************************************)
(* C27: two commands in flight for one container                           *)
(***************************************************************************)
\* Threads u and v carry two commands for one container, v dispatched while
\* the command of u had not completed, and both have reported success.
both_succeeded(u, v) ==
    /\ u < v
    /\ threads[u].container_id = threads[v].container_id
    /\ threads[v].overlaps
    /\ threads[u].pc = "done" /\ threads[u].ok
    /\ threads[v].pc = "done" /\ threads[v].ok

\* C27: when two commands were dispatched for one container before the
\* first completed and both have reported success, the container's running
\* state equals the expected state stored for it in pending_operations,
\* whichever thread ran first.
C27_ActualEqualsExpected ==
    \A u, v \in 1..Len(threads) :
        both_succeeded(u, v) /\ pending_operations[threads[v].container_id].some =>
            engine_running[threads[v].container_id]
                = pending_operations[threads[v].container_id].v

\* The stored expected state is that of the later command.
C27_StoredIsLaterCommand ==
    \A u, v \in 1..Len(threads) :
        both_succeeded(u, v) /\ pending_operations[threads[v].container_id].some =>
            pending_operations[threads[v].container_id].v
                = expected_running(threads[v].action)

\* Both commands succeeded and the container is left in the state of the
\* earlier command, which differs from the stored expected state.
C27_WitnessEarlierRanLast ==
    \E u, v \in 1..Len(threads) :
        /\ both_succeeded(u, v)
        /\ pending_operations[threads[v].container_id] # None
        /\ pending_operations[threads[v].container_id].v
               = expected_running(threads[v].action)
        /\ engine_running[threads[v].container_id]
               = expected_running(threads[u].action)
        /\ expected_running(threads[u].action) # expected_running(threads[v].action)

(***************************************************************************)
(* C28: what a run of the aggregator leaves alone                          *)
(***************************************************************************)
classified(processes, pid) ==
    \E f \in 1..Len(Families) : pid \in family_members(processes, Families[f])

is_family_root(processes, pid) ==
    \E f \in 1..Len(Families) :
        /\ family_members(processes, Families[f]) # {}
        /\ pid = lowest_root(processes, Families[f])

\* The sum over the members, none of them a thread, of the PSS, or of the
\* memory the process record holds where the PSS is unavailable.
RECURSIVE members_sum(_, _)
members_sum(processes, members) ==
    IF members = {} THEN 0
    ELSE LET pid == set_min(members)
         IN  (IF pss_bytes[pid].some THEN pss_bytes[pid].v
              ELSE processes[pid].memory_bytes)
             + members_sum(processes, members \ {pid})

\* C28: a run of the aggregator changes nothing except the memory_bytes of
\* family-root processes: the set of process ids is unchanged, every field
\* of every thread and of every unclassified process is unchanged, and no
\* family total includes the memory of a thread.
C28_OnlyRootMemoryChanges ==
    [][agg_runs' = agg_runs + 1 =>
          /\ DOMAIN mem_procs' = DOMAIN mem_procs
          /\ \A pid \in DOMAIN mem_procs :
                /\ mem_procs'[pid] =
                       [mem_procs[pid] EXCEPT !.memory_bytes = mem_procs'[pid].memory_bytes]
                /\ mem_procs'[pid] # mem_procs[pid] => is_family_root(mem_procs, pid)
                /\ mem_procs[pid].is_thread \/ ~classified(mem_procs, pid) =>
                       mem_procs'[pid] = mem_procs[pid]
          /\ \A f \in 1..Len(Families) :
                LET members == family_members(mem_procs, Families[f])
                IN  members # {} =>
                       \/ mem_procs'[lowest_root(mem_procs, Families[f])].memory_bytes
                              = members_sum(mem_procs, members)
                       \/ /\ cgroup_current.some
                          /\ mem_procs'[lowest_root(mem_procs, Families[f])].memory_bytes
                                 = cgroup_current.v]_vars

\* A thread named like a family with the lowest pid, a member of the family
\* and one run: the thread keeps its record and the member holds its own
\* PSS alone.
C28_Witness ==
    /\ agg_runs = 1
    /\ mem_procs[1].is_thread /\ mem_procs[1].name_lower = "chrome"
    /\ mem_procs[1].memory_bytes = rss_of(1)
    /\ family_members(mem_procs, "chrome") = {2}
    /\ pss_bytes[1].some /\ pss_bytes[2].some
    /\ mem_procs[2].memory_bytes = pss_of(2)

(***************************************************************************)
(* C29: the selection of the Ports view                                    *)
(***************************************************************************)
has_item_row(rows) == \E i \in 1..Len(rows) : rows[i] # GROUP_ROW

on_item_row(rows, selected) ==
    /\ selected < Len(rows)
    /\ rows[selected + 1] # GROUP_ROW

\* C29: in the Ports view, whenever the row list contains an Item row, after
\* every refresh of the rows and after every Up, Down, PageUp, PageDown,
\* scroll or click step the selected index is within the row list and
\* designates an Item row, never a Group header row.
C29_SelectionOnItem ==
    /\ app_state # <<>>
    /\ app_state.view_mode = "Ports"
    /\ last_step \in selection_steps \cup {"refresh"}
    /\ has_item_row(app_state.visible_ports)
    => on_item_row(app_state.visible_ports, app_state.selected)

\* The same after every refresh of the rows.
C29_HoldsAfterRefresh ==
    /\ app_state # <<>>
    /\ app_state.view_mode = "Ports"
    /\ last_step = "refresh"
    /\ has_item_row(app_state.visible_ports)
    => on_item_row(app_state.visible_ports, app_state.selected)

\* A selection step never leaves an Item row for a header or for no row.
C29_StepsKeepItem ==
    [][/\ app_state # <<>>
       /\ app_state.view_mode = "Ports"
       /\ on_item_row(app_state.visible_ports, app_state.selected)
       /\ last_step' \in selection_steps
       /\ app_state'.view_mode = "Ports"
       => on_item_row(app_state'.visible_ports, app_state'.selected)]_vars

\* After an Up step the selection is on the header at index 0 of a list
\* that has Item rows.
C29_WitnessOnHeader ==
    /\ app_state # <<>>
    /\ app_state.view_mode = "Ports"
    /\ last_step = "Up"
    /\ has_item_row(app_state.visible_ports)
    /\ app_state.selected = 0
    /\ app_state.visible_ports[1] = GROUP_ROW

(***************************************************************************)
(* C30: leaving the environment view                                       *)
(***************************************************************************)
leaves_env_view ==
    /\ app_state # <<>>
    /\ app_state.view_mode = "DockerEnv"
    /\ app_state'.view_mode # "DockerEnv"

\* C30: pressing Esc in the environment view returns to the view from which
\* the environment view was opened and sets the input mode to Normal,
\* whichever way it was opened.
C30_EscReturnsToOpener ==
    [][leaves_env_view =>
          /\ app_state'.view_mode = env_opened_from.view
          /\ app_state'.input_mode = "Normal"]_vars

\* The same when the view was opened with the e key; and however it was
\* opened, Esc leads to env_return_view in Normal mode.
C30_HoldsForKey ==
    [][leaves_env_view =>
          /\ app_state'.view_mode = app_state.env_return_view
          /\ app_state'.input_mode = "Normal"
          /\ env_opened_from.by = "key" =>
                 app_state'.view_mode = env_opened_from.view]_vars

\* The environment view was opened from the Ports view by the menu and its
\* return view is the Process view.
C30_WitnessPortsToProcess ==
    /\ app_state # <<>>
    /\ app_state.view_mode = "DockerEnv"
    /\ env_opened_from = [view |-> "Ports", by |-> "menu"]
    /\ app_state.env_return_view = "Process"

\* The environment view opened from the Node view with the e key.
C30_WitnessNode ==
    /\ app_state # <<>>
    /\ app_state.view_mode = "DockerEnv"
    /\ env_opened_from = [view |-> "Node", by |-> "key"]
    /\ app_state.env_return_view = "Node"

====
